---- MODULE Spec2Model ----
(***************************************************************************)
(* A model of the experimental production planner/scheduler of             *)
(* src/python/pants/engine/exp/scheduler.py: the Planners registry and its *)
(* requirement solver, the ProductMapper, LocalScheduler.promise and       *)
(* LocalScheduler.execution_graph, and ExecutionGraph.walk.                *)
(*                                                                         *)
(* Task planners are collaborators of the scheduler: their plan() and      *)
(* finalize_plans() are modelled as nondeterministic choices among the     *)
(* plans a planner can build from the promises the scheduler handed it.    *)
(***************************************************************************)
EXTENDS Integers, Sequences, FiniteSets, TLC

\* ------------------------------------------------------------------------
\* Bounds of the model.

\* Most scheduler.promise calls the planners make in one session (a planner's
\* plan() calling scheduler.promise, whose planner calls scheduler.promise, ...).
MaxNestedCalls == 2

\* Deepest recursion of the requirement solver before the interpreter gives
\* up (RuntimeError: maximum recursion depth exceeded).
MaxRecursion == 4

\* Most AND-clauses in a DNF formula drawn for the solver's registries.
MaxClauses == 2

\* Most register_promises calls made on the ProductMapper that is checked on
\* its own.
MaxRegistrations == 2

\* Deepest nesting of mappings and sequences in the inputs of a plan.
MaxTreeDepth == 2

\* Most items of a sequence in the inputs of a plan.
MaxItems == 2

\* ------------------------------------------------------------------------
\* The universe: subjects, product types, planners, goals, configurations.

\* None where a Plan, a Promise or an exception is expected.
NULL == [none |-> TRUE]

\* None where a subject, a planner or a configuration is expected.
None == "None"

Subjects == {"A", "B"}

ProductTypes == {"T", "U", "N", "M"}

TaskPlanners == {"p1", "p2"}

NoPlanner == "NoPlanner"

lift_native_product == "lift_native_product"

Goals == {"g1", "g2"}

\* A configuration is None or an object; type(configuration) is a product type.
Configurations == {None, "cN"}

TypeOfConfiguration(configuration) == "N"

Range(seq) == {seq[i] : i \in 1..Len(seq)}

\* The iteration order of a dict or set keyed by planners.  The solver only
\* accumulates into sets and ORs booleans, so its results do not depend on it.
PlannerOrder == <<"p1", "p2">>

\* ------------------------------------------------------------------------
\* State.

VARIABLES
    planners,       \* Planners registry: planner -> [goal_name, product_types]
    products,       \* Products.for_subject: subject -> native product types
    request,        \* BuildRequest: [goals, addressable_roots]
    pc,             \* where execution_graph is: "init", "planning", "finalizing", "done", "error", "solver"
    loop,           \* the position of the goal/subject/product_type loops of execution_graph
    stack,          \* the activation records of the nested LocalScheduler.promise calls
    promises,       \* ProductMapper._promises: Promise -> Plan
    plans_index,    \* LocalScheduler._plans_by_product_type_by_planner, as <<planner, product_type, OrderedSet>>
    root_promises,  \* the root_promises list of execution_graph
    finalized,      \* the (planner, product_type) items the finalization loop has visited
    error,          \* the exception that ended the session, or NULL
    returned,       \* history: the promises LocalScheduler.promise has returned
    last,           \* history: what the last step did
    ncalls,         \* history: how many scheduler.promise calls the planners have made
    emitted,        \* history: the plans the planners' plan() calls have returned, and for what
    plan_calls,     \* history: the plan() invocations made: [planner, promise, reentrant]
    solver          \* the solver application of the solver specifications

vars == <<planners, products, request, pc, loop, stack, promises, plans_index,
          root_promises, finalized, error, returned, last, ncalls, emitted, plan_calls,
          solver>>

\* ------------------------------------------------------------------------
\* Planners registry (Planners.__init__).

\* _output_products: every output type some planner declares.
OutputProducts(reg) == UNION {DOMAIN reg[p].product_types : p \in DOMAIN reg}

\* _product_requirements[output_type]: the planners declaring output_type, in
\* iteration order; _product_requirements[output_type][planner] is
\* reg[planner].product_types[output_type].
ProductRequirements(reg, output_type) ==
    SelectSeq(PlannerOrder,
              LAMBDA p : p \in DOMAIN reg /\ output_type \in DOMAIN reg[p].product_types)

\* Planners.for_goal: the planners installed in the goal.
for_goal(reg, goal_name) == {p \in DOMAIN reg : reg[p].goal_name = goal_name}

\* ------------------------------------------------------------------------
\* Requirement solver.  The accumulators are threaded through the calls:
\*   fc  = fully_consumed, a set of product types
\*   pcc = partially_consumed_candidates[consumed][planner] as a set of
\*         <<consumed, planner, unconsumed>> triples
\*   overflow = the recursion ran out of stack (RuntimeError)

EmptyAcc == [fc |-> {}, pcc |-> {}, overflow |-> FALSE]

RECURSIVE ApplyProductRequirements(_, _, _, _, _)
RECURSIVE MatchClause(_, _, _, _, _, _, _)
RECURSIVE ApplyProductRequirementClauses(_, _, _, _, _, _, _)
RECURSIVE ApplyPlannersOf(_, _, _, _, _, _, _)

\* matched = [self._apply_product_requirements(product_req, ...) for product_req in anded_clause]
MatchClause(reg, input_products, anded_clause, i, matched, acc, depth) ==
    IF i > Len(anded_clause)
    THEN [matched |-> matched, acc |-> acc]
    ELSE LET r == ApplyProductRequirements(reg, anded_clause[i], input_products, acc, depth)
         IN  MatchClause(reg, input_products, anded_clause, i + 1,
                         Append(matched, r.ok), r.acc, depth)

\* A faulty clause test: exactly one requirement must match.
OneRequirementMatched(matched_count, anded_clause) == matched_count = 1

\* A faulty clause test: one matched requirement is enough.
SomeRequirementMatched(matched_count, anded_clause) == matched_count > 0

\* The clause-satisfaction test: every requirement of the clause matched.
ClauseSatisfied(matched_count, anded_clause) == matched_count = Len(anded_clause)

\* A faulty recording: the consumed products are recorded under the
\* unconsumed ones.
PartiallyConsumedReversed(planner, consumed, unconsumed) ==
    {<<u, planner, c>> : c \in consumed, u \in unconsumed}

\* for consumed_product in consumed:
\*   partially_consumed_candidates[consumed_product][planner].update(unconsumed)
PartiallyConsumed(planner, consumed, unconsumed) ==
    {<<c, planner, u>> : c \in consumed, u \in unconsumed}

\* Planners._apply_product_requirement_clauses, from clause j on.
ApplyProductRequirementClauses(reg, input_products, planner, ored_clauses, j, acc, depth) ==
    IF j > Len(ored_clauses)
    THEN [ok |-> FALSE, acc |-> acc]
    ELSE LET anded_clause == ored_clauses[j]
             m == MatchClause(reg, input_products, anded_clause, 1, <<>>, acc, depth)
             matched_count == Cardinality({i \in 1..Len(anded_clause) : m.matched[i]})
             consumed == {anded_clause[i] : i \in {k \in 1..Len(anded_clause) : m.matched[k]}}
             unconsumed == {anded_clause[i] : i \in {k \in 1..Len(anded_clause) : ~m.matched[k]}}
         IN  IF ClauseSatisfied(matched_count, anded_clause)
             THEN [ok |-> TRUE,
                   acc |-> [m.acc EXCEPT !.fc = @ \cup Range(anded_clause)]]
             ELSE IF matched_count > 0
             THEN ApplyProductRequirementClauses(
                      reg, input_products, planner, ored_clauses, j + 1,
                      [m.acc EXCEPT !.pcc = @ \cup PartiallyConsumed(planner, consumed, unconsumed)],
                      depth)
             ELSE ApplyProductRequirementClauses(
                      reg, input_products, planner, ored_clauses, j + 1, m.acc, depth)

\* The loop of _apply_product_requirements over the planners of the output:
\* matched |= self._apply_product_requirement_clauses(...)
ApplyPlannersOf(reg, input_products, output_product_type, k, matched, acc, depth) ==
    LET ps == ProductRequirements(reg, output_product_type)
    IN  IF k > Len(ps)
        THEN [ok |-> matched, acc |-> acc]
        ELSE LET r == ApplyProductRequirementClauses(
                          reg, input_products, ps[k],
                          reg[ps[k]].product_types[output_product_type], 1, acc, depth)
             IN  ApplyPlannersOf(reg, input_products, output_product_type, k + 1,
                                 matched \/ r.ok, r.acc, depth)

\* Planners._apply_product_requirements.  Once the recursion has overflowed the
\* exception is propagating and nothing more is evaluated.
ApplyProductRequirements(reg, output_product_type, input_products, acc, depth) ==
    IF acc.overflow
    THEN [ok |-> FALSE, acc |-> acc]
    ELSE IF output_product_type \in input_products
    THEN [ok |-> TRUE, acc |-> acc]
    ELSE IF output_product_type \notin OutputProducts(reg)
    THEN [ok |-> FALSE, acc |-> acc]
    ELSE IF depth >= MaxRecursion
    THEN [ok |-> FALSE, acc |-> [acc EXCEPT !.overflow = TRUE]]
    ELSE ApplyPlannersOf(reg, input_products, output_product_type, 1, FALSE, acc, depth + 1)

\* A faulty lookup: one fully_consumed set is shared by the planners of the
\* product type.
for_product_type_and_subject_shared(reg, product_type, input_products, configuration) ==
    LET Result(p) == ApplyProductRequirementClauses(
                         reg, input_products, p,
                         reg[p].product_types[product_type], 1, EmptyAcc, 0)
        shared == UNION {Result(p).acc.fc : p \in Range(ProductRequirements(reg, product_type))}
    IN  SelectSeq(ProductRequirements(reg, product_type),
                  LAMBDA p :
                      /\ Result(p).ok
                      /\ \/ configuration = None
                         \/ TypeOfConfiguration(configuration) \in shared)

\* Planners.for_product_type_and_subject: the planners that can produce
\* product_type from the subject's native products, in iteration order; each
\* planner starts from its own empty fully_consumed set.
for_product_type_and_subject(reg, product_type, input_products, configuration) ==
    SelectSeq(ProductRequirements(reg, product_type),
              LAMBDA p :
                  LET r == ApplyProductRequirementClauses(
                               reg, input_products, p,
                               reg[p].product_types[product_type], 1, EmptyAcc, 0)
                  IN  /\ r.ok
                      /\ \/ configuration = None
                         \/ TypeOfConfiguration(configuration) \in r.acc.fc)

RECURSIVE ProducedLoop(_, _, _, _, _, _)

\* The loop of produced_types_for_subject over the candidate outputs, with the
\* accumulators shared between the candidates.
ProducedLoop(reg, input_products, output_product_types, i, producible, acc) ==
    IF i > Len(output_product_types)
    THEN [producible_output_types |-> producible, acc |-> acc]
    ELSE LET r == ApplyProductRequirements(reg, output_product_types[i],
                                           input_products, acc, 0)
         IN  ProducedLoop(reg, input_products, output_product_types, i + 1,
                          IF r.ok THEN Append(producible, output_product_types[i])
                                  ELSE producible,
                          r.acc)

\* A faulty validation: every partially consumed product is an error, whether
\* or not some planner fully consumed it.
produced_types_unfiltered(reg, input_products, output_product_types) ==
    LET r == ProducedLoop(reg, input_products, output_product_types, 1, <<>>,
                          [fc |-> {}, pcc |-> {}, overflow |-> FALSE])
    IN  [producible_output_types |-> r.producible_output_types,
         partially_consumed |-> r.acc.pcc,
         raises |-> r.acc.pcc # {},
         overflow |-> r.acc.overflow]

\* A faulty validation: partial consumption is never an error.
produced_types_unvalidated(reg, input_products, output_product_types) ==
    LET r == ProducedLoop(reg, input_products, output_product_types, 1, <<>>,
                          [fc |-> {}, pcc |-> {}, overflow |-> FALSE])
    IN  [producible_output_types |-> r.producible_output_types,
         partially_consumed |-> {},
         raises |-> FALSE,
         overflow |-> r.acc.overflow]

\* Planners.produced_types_for_subject: the producible candidates, and the
\* partially consumed products that make it raise PartiallyConsumedInputsError.
produced_types_for_subject(reg, input_products, output_product_types) ==
    LET r == ProducedLoop(reg, input_products, output_product_types, 1, <<>>, EmptyAcc)
        partially_consumed == {t \in r.acc.pcc : t[1] \notin r.acc.fc}
    IN  [producible_output_types |-> r.producible_output_types,
         partially_consumed |-> partially_consumed,
         raises |-> partially_consumed # {},
         overflow |-> r.acc.overflow]

\* ------------------------------------------------------------------------
\* Promise, Plan, ProductMapper.

\* Promise._key: (product_type, subject.primary, configuration).
Promise(product_type, subject, configuration) ==
    [product_type |-> product_type, subject |-> subject, configuration |-> configuration]

\* Plan._key: (task, frozenset of subjects, normalized inputs).  The inputs of
\* a plan are the promises embedded in it and its other (opaque) data.
Plan(func_or_task_type, subjects, plan_promises, data) ==
    [func_or_task_type |-> func_or_task_type, subjects |-> subjects,
     promises |-> plan_promises, data |-> data]

\* ProductMapper.promised: the plan registered for the promise, or None.
promised(mapper, promise) ==
    IF promise \in DOMAIN mapper THEN mapper[promise] ELSE NULL

\* The subjects register_promises indexes a plan by.
IndexedSubjects(plan) == plan.subjects

\* A faulty registration: the stores drop the configuration from the keys.
register_promises_unconfigured(mapper, product_type, plan, primary_subject, configuration) ==
    LET keys == {[product_type |-> product_type, subject |-> s, configuration |-> None] :
                    s \in plan.subjects}
        primary_promise == IF primary_subject \in plan.subjects
                           THEN [product_type |-> product_type, subject |-> primary_subject,
                                 configuration |-> configuration]
                           ELSE NULL
    IN  [mapper |-> [q \in DOMAIN mapper \cup keys |->
                        IF q \in keys THEN plan ELSE mapper[q]],
         primary_promise |-> primary_promise,
         raises |-> primary_subject # None /\ primary_promise = NULL]

\* A faulty registration: the primary subject's promise is stored as well,
\* whether or not the plan covers the primary subject.
register_promises_primary_too(mapper, product_type, plan, primary_subject, configuration) ==
    LET covered == plan.subjects \cup (IF primary_subject = None THEN {} ELSE {primary_subject})
        keys == {[product_type |-> product_type, subject |-> s,
                  configuration |-> configuration] : s \in covered}
        primary_promise == IF primary_subject \in plan.subjects
                           THEN [product_type |-> product_type, subject |-> primary_subject,
                                 configuration |-> configuration]
                           ELSE NULL
    IN  [mapper |-> [q \in DOMAIN mapper \cup keys |->
                        IF q \in keys THEN plan ELSE mapper[q]],
         primary_promise |-> primary_promise,
         raises |-> primary_subject # None /\ primary_promise = NULL]

\* A faulty registration: the primary subject is never checked, and the
\* primary promise is returned whatever the plan covers.
register_promises_unchecked(mapper, product_type, plan, primary_subject, configuration) ==
    LET keys == {[product_type |-> product_type, subject |-> s,
                  configuration |-> configuration] : s \in plan.subjects}
    IN  [mapper |-> [q \in DOMAIN mapper \cup keys |->
                        IF q \in keys THEN plan ELSE mapper[q]],
         primary_promise |-> [product_type |-> product_type, subject |-> primary_subject,
                              configuration |-> configuration],
         raises |-> FALSE]

\* A faulty registration: only the promise of the primary subject is stored.
register_promises_primary_only(mapper, product_type, plan, primary_subject, configuration) ==
    LET keys == {[product_type |-> product_type, subject |-> s,
                  configuration |-> configuration] : s \in plan.subjects \cap {primary_subject}}
        primary_promise == IF primary_subject \in plan.subjects
                           THEN [product_type |-> product_type, subject |-> primary_subject,
                                 configuration |-> configuration]
                           ELSE NULL
    IN  [mapper |-> [q \in DOMAIN mapper \cup keys |->
                        IF q \in keys THEN plan ELSE mapper[q]],
         primary_promise |-> primary_promise,
         raises |-> primary_subject # None /\ primary_promise = NULL]

\* ProductMapper.register_promises: the mapper after the stores, the primary
\* promise (or None), and whether InvalidRegistrationError is raised.  The
\* stores happen before the check of the primary subject.
register_promises(mapper, product_type, plan, primary_subject, configuration) ==
    LET keys == {Promise(product_type, s, configuration) : s \in IndexedSubjects(plan)}
        primary_promise == IF primary_subject \in IndexedSubjects(plan)
                           THEN Promise(product_type, primary_subject, configuration)
                           ELSE NULL
    IN  [mapper |-> [q \in DOMAIN mapper \cup keys |->
                        IF q \in keys THEN plan ELSE mapper[q]],
         primary_promise |-> primary_promise,
         raises |-> primary_subject # None /\ primary_promise = NULL]

\* A faulty OrderedSet.add: a plain list append.
ListAppend(oset, item) == Append(oset, item)

\* OrderedSet.add: append unless already a member.
OrderedSetAdd(oset, item) ==
    IF item \in Range(oset) THEN oset ELSE Append(oset, item)

\* self._plans_by_product_type_by_planner[planner][product_type] (a defaultdict).
PlansOf(index, planner, product_type) ==
    IF <<planner, product_type>> \in DOMAIN index
    THEN index[<<planner, product_type>>] ELSE <<>>

\* A faulty index update: the plan is not recorded.
IndexSkip(index, planner, product_type, plan) == index

\* self._plans_by_product_type_by_planner[planner][product_type].add(plan)
IndexAdd(index, planner, product_type, plan) ==
    LET key == <<planner, product_type>>
    IN  [k \in DOMAIN index \cup {key} |->
            IF k = key THEN OrderedSetAdd(PlansOf(index, planner, product_type), plan)
            ELSE index[k]]

\* ------------------------------------------------------------------------
\* ExecutionGraph.walk: the sequence of (promise, plan) pairs it yields.  The
\* state of the generators is the seen-set `plans` and the pairs yielded.

RECURSIVE WalkPlan(_, _, _)
RECURSIVE WalkPromises(_, _, _)

\* The promises of a plan in the order the walk iterates them.
RECURSIVE SetToSeq(_)
SetToSeq(S) ==
    IF S = {} THEN <<>>
    ELSE LET x == CHOOSE y \in S : TRUE IN <<x>> \o SetToSeq(S \ {x})

\* for pr in plan.promises: for pl in self._walk_plan(pr, plans): yield pl
WalkPromises(mapper, prs, st) ==
    IF prs = <<>> THEN st
    ELSE WalkPromises(mapper, Tail(prs), WalkPlan(mapper, Head(prs), st))

\* ExecutionGraph._walk_plan.  A promise without a plan makes plan.promises
\* fail on None (AttributeError).
WalkPlan(mapper, promise, st) ==
    LET plan == promised(mapper, promise)
    IN  IF st.failed \/ plan \in st.plans THEN st
        ELSE IF plan = NULL THEN [st EXCEPT !.failed = TRUE]
        ELSE LET below == WalkPromises(mapper, SetToSeq(plan.promises),
                                       [st EXCEPT !.plans = @ \cup {plan}])
             IN  IF below.failed THEN below
                 ELSE [below EXCEPT !.yielded = Append(@, <<promise, plan>>)]

\* ExecutionGraph.walk over the root promises.
walk(roots, mapper) ==
    WalkPromises(mapper, roots, [plans |-> {}, yielded |-> <<>>, failed |-> FALSE])

\* ------------------------------------------------------------------------
\* LocalScheduler.promise.  An activation record of promise() holds its
\* arguments, the planners for_product_type_and_subject still has to yield
\* (todo), the candidate list `plans`, and, while a planner's plan() runs,
\* the promises the planner has obtained from the scheduler so far.

Frame(subject, product_type, configuration) ==
    [subject |-> subject, product_type |-> product_type, configuration |-> configuration,
     todo |-> for_product_type_and_subject(planners, product_type, products[subject],
                                           configuration),
     plans |-> <<>>, running |-> FALSE, obtained |-> {}, nonnull |-> 0]

Top == stack[Len(stack)]

SetTop(f) == [stack EXCEPT ![Len(stack)] = f]

\* The promise a promise() call is about.
FramePromise(f) == Promise(f.product_type, f.subject, f.configuration)

\* The innermost promise() call is for a promise an enclosing call is already
\* planning.
ReEntrant(frames) ==
    \E i \in 1..(Len(frames) - 1) : FramePromise(frames[i]) = FramePromise(frames[Len(frames)])

\* A faulty native lookup: native products never become candidates.
NoNativeCandidates(f) == <<>>

\* A faulty native lookup: the lifting plan is made for every subject.
NativeCandidatesForAll(f) ==
    IF f.product_type \in products[f.subject]
    THEN <<<<NoPlanner, Plan(lift_native_product, Subjects, {},
                             <<f.subject, f.product_type>>)>>>>
    ELSE <<>>

\* The candidates the native products of the subject add to `plans`.
NativeCandidates(f) ==
    IF f.product_type \in products[f.subject]
    THEN <<<<NoPlanner, Plan(lift_native_product, {f.subject}, {},
                             <<f.subject, f.product_type>>)>>>>
    ELSE <<>>

\* A faulty candidate check: two candidates are not yet a conflict.
ResolutionOfThree(plans) ==
    IF Len(plans) > 2 THEN "ConflictingProducersError"
    ELSE IF Len(plans) = 0 THEN "NoProducersError"
    ELSE "register"

\* What promise() does with the candidate list.
Resolution(plans) ==
    IF Len(plans) > 1 THEN "ConflictingProducersError"
    ELSE IF Len(plans) = 0 THEN "NoProducersError"
    ELSE "register"

\* A faulty fast path: the mapper is never consulted.
NeverPromised(mapper, promise) == FALSE

\* A faulty fast path: taken only for the lifted native products.
AlreadyPromisedNative(mapper, promise) ==
    /\ promised(mapper, promise) # NULL
    /\ promised(mapper, promise).func_or_task_type = lift_native_product

\* Whether promise() takes the fast path: the mapper already has a plan.
AlreadyPromised(mapper, promise) == promised(mapper, promise) # NULL

\* What a step did, for the history variable `last`: the promise() call it
\* belongs to, whether the mapper had a plan for it when it was called
\* (planned), whether promise() had returned that promise before (again), how
\* many planners returned a plan (nonnull), and the outcome.
Event(op, call, planned, again, nonnull, planner, plan, result) ==
    [op |-> op, call |-> call, planned |-> planned, again |-> again, nonnull |-> nonnull,
     planner |-> planner, plan |-> plan, result |-> result]

NoEvent(op) == Event(op, NULL, FALSE, FALSE, 0, None, NULL, NULL)

\* The caller of a returning promise() receives the promise: execution_graph
\* appends it to root_promises, a planner keeps it for its plan's inputs.
Deliver(callers, promise) ==
    IF callers = <<>>
    THEN /\ root_promises' = Append(root_promises, promise)
         /\ loop' = [loop EXCEPT !.types = Tail(@)]
         /\ stack' = callers
    ELSE /\ stack' = [callers EXCEPT ![Len(callers)] =
                         [@ EXCEPT !.obtained = @ \cup {promise}]]
         /\ UNCHANGED <<root_promises, loop>>

\* promise(subject, product_type, configuration) called with `callers` on the
\* stack: the fast path returns the promise, otherwise planning starts.
Call(callers, subject, product_type, configuration) ==
    LET promise == Promise(product_type, subject, configuration)
    IN  IF AlreadyPromised(promises, promise)
        THEN /\ Deliver(callers, promise)
             /\ returned' = returned \cup {promise}
             /\ last' = Event("fast", promise, TRUE, promise \in returned, 0, None, NULL, promise)
        ELSE /\ stack' = Append(callers, Frame(subject, product_type, configuration))
             /\ last' = Event("enter", promise, FALSE, promise \in returned, 0, None, NULL, NULL)
             /\ UNCHANGED <<root_promises, loop, returned>>

\* A faulty propagation: the exception is recorded and the loops of
\* execution_graph go on.
RaiseAndGoOn(kind, f, who) ==
    /\ pc' = pc
    /\ error' = [kind |-> kind, product_type |-> f.product_type, subject |-> f.subject,
                 planners |-> who, partially_consumed |-> {}]
    /\ stack' = <<>>
    /\ last' = Event("raise", Promise(f.product_type, f.subject, f.configuration),
                     FALSE, FALSE, f.nonnull, None, NULL, NULL)

\* An exception leaves promise() and execution_graph: the session is over.
Raise(kind, f, who) ==
    /\ pc' = "error"
    /\ error' = [kind |-> kind, product_type |-> f.product_type, subject |-> f.subject,
                 planners |-> who, partially_consumed |-> {}]
    /\ stack' = <<>>
    /\ last' = Event("raise", Promise(f.product_type, f.subject, f.configuration),
                     FALSE, FALSE, f.nonnull, None, NULL, NULL)

\* for planner in for_product_type_and_subject(...): plan = planner.plan(self, ...)
PlanCall ==
    /\ pc = "planning" /\ stack # <<>>
    /\ ~Top.running /\ Top.todo # <<>>
    /\ stack' = SetTop([Top EXCEPT !.running = TRUE, !.obtained = {}])
    /\ last' = Event("plan", Promise(Top.product_type, Top.subject, Top.configuration),
                     FALSE, FALSE, Top.nonnull, Head(Top.todo), NULL, NULL)
    /\ plan_calls' = plan_calls \cup {[planner |-> Head(Top.todo),
                                        promise |-> FramePromise(Top),
                                        reentrant |-> ReEntrant(stack)]}
    /\ UNCHANGED <<planners, products, request, pc, loop, promises, plans_index,
                   root_promises, finalized, error, returned, ncalls, emitted, solver>>

\* What planners ask the scheduler for: a product type and a configuration.
\* A configuration is requested for the product a planner makes.
RequestedTypes == {<<"T", None>>, <<"T", "cN">>, <<"N", None>>}

\* The running planner calls scheduler.promise for one of its inputs.
NestedPromise ==
    /\ pc = "planning" /\ stack # <<>>
    /\ Top.running /\ ncalls < MaxNestedCalls
    /\ \E s \in Subjects, t \in RequestedTypes :
          Call(stack, s, t[1], t[2])
    /\ ncalls' = ncalls + 1
    /\ UNCHANGED <<planners, products, request, pc, promises, plans_index,
                   finalized, error, emitted, plan_calls, solver>>

\* The plans the running planner can return: None, or a plan of its task for
\* the subject, for all subjects or for the other subjects, whose inputs embed
\* the promises it obtained, or none of them.
PlannerChoices(f) ==
    {NULL} \cup {Plan(Head(f.todo), ss, ps, <<"inputs">>) :
                     ss \in {{f.subject}, Subjects, Subjects \ {f.subject}},
                     ps \in {{}, f.obtained}}

\* plan() returns: if plan: plans.append((planner, plan))
PlanReturn ==
    /\ pc = "planning" /\ stack # <<>>
    /\ Top.running
    /\ \E plan \in PlannerChoices(Top) :
          /\ stack' = SetTop([Top EXCEPT
                 !.running = FALSE, !.todo = Tail(@), !.obtained = {},
                 !.plans = IF plan # NULL THEN Append(@, <<Head(Top.todo), plan>>) ELSE @,
                 !.nonnull = IF plan # NULL THEN @ + 1 ELSE @])
          /\ last' = Event("planned", Promise(Top.product_type, Top.subject, Top.configuration),
                           FALSE, FALSE, 0, Head(Top.todo), plan, NULL)
          /\ emitted' = IF plan = NULL THEN emitted
                        ELSE emitted \cup {[planner |-> Head(Top.todo),
                                            product_type |-> Top.product_type,
                                            subject |-> Top.subject, plan |-> plan]}
    /\ UNCHANGED <<planners, products, request, pc, loop, promises, plans_index,
                   root_promises, finalized, error, returned, ncalls, plan_calls, solver>>

\* The end of promise(): the native candidate, the conflict and no-producer
\* checks, the registration and the return of the primary promise.
Resolve ==
    /\ pc = "planning" /\ stack # <<>>
    /\ ~Top.running /\ Top.todo = <<>>
    /\ LET f == Top
           plans == f.plans \o NativeCandidates(f)
           what == Resolution(plans)
           callers == SubSeq(stack, 1, Len(stack) - 1)
       IN  IF what = "ConflictingProducersError"
           THEN /\ Raise(what, f, [i \in 1..Len(plans) |-> plans[i][1]])
                /\ UNCHANGED <<promises, plans_index, root_promises, loop, returned>>
           ELSE IF what = "NoProducersError"
           THEN /\ Raise(what, f, <<>>)
                /\ UNCHANGED <<promises, plans_index, root_promises, loop, returned>>
           ELSE LET planner == plans[1][1]
                    plan == plans[1][2]
                    reg == register_promises(promises, f.product_type, plan,
                                             f.subject, f.configuration)
                IN  /\ promises' = reg.mapper
                    /\ IF reg.raises
                       THEN /\ Raise("SchedulingError", f, <<planner>>)
                            /\ UNCHANGED <<plans_index, root_promises, loop, returned>>
                       ELSE /\ plans_index' = IndexAdd(plans_index, planner,
                                                       f.product_type, plan)
                            /\ Deliver(callers, reg.primary_promise)
                            /\ returned' = returned \cup {reg.primary_promise}
                            /\ last' = Event("return",
                                             Promise(f.product_type, f.subject, f.configuration),
                                             FALSE, FALSE, f.nonnull, planner, plan,
                                             reg.primary_promise)
                            /\ UNCHANGED <<pc, error>>
    /\ UNCHANGED <<planners, products, request, finalized, ncalls, emitted, plan_calls, solver>>

\* ------------------------------------------------------------------------
\* LocalScheduler.execution_graph.

Perms(S) == {seq \in [1..Cardinality(S) -> S] : Range(seq) = S}

\* product_types = OrderedSet(); for planner in for_goal(goal):
\*   product_types.update(planner.product_types.keys())
GoalProductTypes(reg, goal) ==
    UNION {DOMAIN reg[p].product_types : p \in for_goal(reg, goal)}

Root == request.addressable_roots[loop.subject]

\* for goal in goals: gather the output product types of the goal's planners.
\* The planners come from a set and the types from dict keys, so the order
\* of the gathered types is any order.
BeginGoal ==
    /\ pc = "planning" /\ stack = <<>> /\ loop.stage = "goal"
    /\ IF loop.goal > Len(request.goals)
       THEN /\ pc' = "finalizing"
            /\ UNCHANGED loop
       ELSE /\ \E order \in Perms(GoalProductTypes(planners, request.goals[loop.goal])) :
                  loop' = [loop EXCEPT !.product_types = order, !.subject = 1,
                                       !.types = <<>>, !.stage = "subject"]
            /\ UNCHANGED pc
    /\ last' = NoEvent("goal")
    /\ UNCHANGED <<planners, products, request, stack, promises, plans_index,
                   root_promises, finalized, error, returned, ncalls, emitted, plan_calls, solver>>

\* for subject in subjects: produced_types_for_subject(subject, product_types)
BeginSubject ==
    /\ pc = "planning" /\ stack = <<>> /\ loop.stage = "subject"
    /\ IF loop.subject > Len(request.addressable_roots)
       THEN /\ loop' = [loop EXCEPT !.goal = @ + 1, !.stage = "goal"]
            /\ last' = NoEvent("subject")
            /\ UNCHANGED <<pc, error>>
       ELSE LET r == produced_types_for_subject(planners, products[Root],
                                                loop.product_types)
            IN  IF r.raises
                THEN /\ pc' = "error"
                     /\ error' = [kind |-> "PartiallyConsumedInputsError",
                                  product_type |-> loop.product_types[Len(loop.product_types)],
                                  subject |-> Root,
                                  planners |-> <<>>,
                                  partially_consumed |-> r.partially_consumed]
                     /\ last' = NoEvent("partial")
                     /\ UNCHANGED loop
                ELSE /\ loop' = [loop EXCEPT !.types = r.producible_output_types,
                                             !.stage = "types"]
                     /\ last' = NoEvent("subject")
                     /\ UNCHANGED <<pc, error>>
    /\ UNCHANGED <<planners, products, request, stack, promises, plans_index,
                   root_promises, finalized, returned, ncalls, emitted, plan_calls, solver>>

\* for product_type in produced types: root_promises.append(self.promise(subject, product_type))
RootPromise ==
    /\ pc = "planning" /\ stack = <<>> /\ loop.stage = "types"
    /\ IF loop.types = <<>>
       THEN /\ loop' = [loop EXCEPT !.subject = @ + 1, !.stage = "subject"]
            /\ last' = NoEvent("subject")
            /\ UNCHANGED <<stack, root_promises, returned>>
       ELSE Call(<<>>, Root, Head(loop.types), None)
    /\ UNCHANGED <<planners, products, request, pc, promises, plans_index,
                   finalized, error, ncalls, emitted, plan_calls, solver>>

\* The planners that override finalize_plans; the others inherit the
\* TaskPlanner default, which returns the collection it was given.
AggregatingPlanners == {"p1"}

\* What finalize_plans can return for the plans of one (planner, product_type):
\* the very same collection, or a new collection holding the same plans, or a
\* new collection holding one plan that aggregates them (their inputs merged)
\* for some of their subjects.  NoPlanner returns the collection it was given.
FinalizeChoices(planner, plans) ==
    LET subjects == UNION {plans[i].subjects : i \in 1..Len(plans)}
        inputs == UNION {plans[i].promises : i \in 1..Len(plans)}
        Same == [same |-> TRUE, plans |-> plans]
        Other(new) == [same |-> FALSE, plans |-> new]
    IN  IF planner \notin AggregatingPlanners THEN {Same}
        ELSE {Same, Other(plans)}
             \cup {Other(<<Plan(planner, ss, inputs, <<"finalized">>)>>) :
                      ss \in SUBSET subjects \ {{}}}

\* A faulty finalization: the plans finalize_plans returned are not registered.
RegisterNone(mapper, product_type, finalized_plans, i) == mapper

\* A faulty finalization: every promise of the product type is remapped to
\* the first plan finalize_plans returned.
RemapAll(mapper, product_type, finalized_plans, i) ==
    IF finalized_plans = <<>> THEN mapper
    ELSE [q \in DOMAIN mapper |->
             IF q.product_type = product_type THEN finalized_plans[1] ELSE mapper[q]]

RECURSIVE RegisterAll(_, _, _, _)

\* for finalized_plan in finalized_plans:
\*   self._product_mapper.register_promises(product_type, finalized_plan)
RegisterAll(mapper, product_type, finalized_plans, i) ==
    IF i > Len(finalized_plans) THEN mapper
    ELSE RegisterAll(register_promises(mapper, product_type, finalized_plans[i],
                                       None, None).mapper,
                     product_type, finalized_plans, i + 1)

\* One iteration of the finalization loop of execution_graph.
Finalize ==
    /\ pc = "finalizing"
    /\ \E item \in DOMAIN plans_index \ finalized :
          /\ finalized' = finalized \cup {item}
          /\ \E finalized_plans \in FinalizeChoices(item[1], plans_index[item]) :
                /\ promises' = IF finalized_plans.same THEN promises
                               ELSE RegisterAll(promises, item[2], finalized_plans.plans, 1)
                /\ last' = Event("finalize", Promise(item[2], None, None),
                                 finalized_plans.same, FALSE, 0, item[1], NULL,
                                 finalized_plans.plans)
    /\ UNCHANGED <<planners, products, request, pc, loop, stack, plans_index,
                   root_promises, error, returned, ncalls, emitted, plan_calls, solver>>

\* A faulty return: the graph is returned while planners still wait for
\* their finalization.
ReturnGraphEarly ==
    /\ pc = "finalizing"
    /\ pc' = "done"
    /\ last' = NoEvent("done")
    /\ UNCHANGED <<planners, products, request, loop, stack, promises, plans_index,
                   root_promises, finalized, error, returned, ncalls, emitted, plan_calls, solver>>

\* return ExecutionGraph(root_promises, self._product_mapper)
ReturnGraph ==
    /\ pc = "finalizing"
    /\ DOMAIN plans_index \ finalized = {}
    /\ pc' = "done"
    /\ last' = NoEvent("done")
    /\ UNCHANGED <<planners, products, request, loop, stack, promises, plans_index,
                   root_promises, finalized, error, returned, ncalls, emitted, plan_calls, solver>>

\* ------------------------------------------------------------------------
\* The sessions checked: registries, native products and build requests.

EmptyMap == [q \in {} |-> NULL]

\* p1 produces T from N; p2 produces U from T or from M.
Registry1 ==
    ("p1" :> [goal_name |-> "g1", product_types |-> ("T" :> <<<<"N">>>>)])
    @@ ("p2" :> [goal_name |-> "g2", product_types |-> ("U" :> <<<<"T">>, <<"M">>>>)])

\* T needs N and M, and nothing produces M; U consumes N.
Registry2 ==
    ("p1" :> [goal_name |-> "g1", product_types |-> ("T" :> <<<<"N", "M">>>>)])
    @@ ("p2" :> [goal_name |-> "g2", product_types |-> ("U" :> <<<<"N">>>>)])

\* Both planners produce T from N.
Registry3 ==
    ("p1" :> [goal_name |-> "g1", product_types |-> ("T" :> <<<<"N">>>>)])
    @@ ("p2" :> [goal_name |-> "g1", product_types |-> ("T" :> <<<<"N">>>>)])

\* Both planners are installed in goal g1: p1 produces T from N, p2 produces
\* U from N.
Registry4 ==
    ("p1" :> [goal_name |-> "g1", product_types |-> ("T" :> <<<<"N">>>>)])
    @@ ("p2" :> [goal_name |-> "g1", product_types |-> ("U" :> <<<<"N">>>>)])

Session(reg, natives, goals, roots) ==
    [planners |-> reg, products |-> natives,
     request |-> [goals |-> goals, addressable_roots |-> roots]]

Sessions ==
    { Session(Registry1, [s \in Subjects |-> {"N"}], <<"g1">>, <<"A", "B">>),
      Session(Registry1, [s \in Subjects |-> IF s = "A" THEN {"N", "T"} ELSE {"N"}],
              <<"g2">>, <<"A", "B">>),
      Session(Registry2, [s \in Subjects |-> {"N"}], <<"g2", "g1">>, <<"A">>),
      Session(Registry3, [s \in Subjects |-> IF s = "A" THEN {"N"} ELSE {}],
              <<"g1">>, <<"A">>),
      Session(Registry4, [s \in Subjects |-> IF s = "A" THEN {"N"} ELSE {}],
              <<"g1">>, <<"A">>),
      Session(Registry1, [s \in Subjects |-> IF s = "A" THEN {"N", "T"} ELSE {}],
              <<"g1">>, <<"A">>) }

Init ==
    /\ \E session \in Sessions :
          /\ planners = session.planners
          /\ products = session.products
          /\ request = session.request
    /\ pc = "planning"
    /\ loop = [goal |-> 1, product_types |-> <<>>, subject |-> 1, types |-> <<>>,
               stage |-> "goal"]
    /\ stack = <<>>
    /\ promises = EmptyMap
    /\ plans_index = EmptyMap
    /\ root_promises = <<>>
    /\ finalized = {}
    /\ error = NULL
    /\ returned = {}
    /\ last = NoEvent("init")
    /\ ncalls = 0
    /\ emitted = {}
    /\ plan_calls = {}
    /\ solver = NULL

Next ==
    \/ BeginGoal
    \/ BeginSubject
    \/ RootPromise
    \/ PlanCall
    \/ NestedPromise
    \/ PlanReturn
    \/ Resolve
    \/ Finalize
    \/ ReturnGraph

Spec == Init /\ [][Next]_vars

\* ------------------------------------------------------------------------
\* The requirement solver on its own: registries and native product sets are
\* drawn from bounded sets and the solver is applied to every product type.

\* The AND-clauses the drawn formulas are built from.
SolverClauses == {<<>>, <<"N">>, <<"U">>, <<"T">>, <<"N", "M">>, <<"U", "M">>}

\* The DNF formulas of at most n clauses.
Formulas(n) == UNION {[1..k -> SolverClauses] : k \in 0..n}

\* A planner either does not declare an output or declares it with a formula.
Declarations(n) ==
    {[declared |-> FALSE, formula |-> <<>>]} \cup [declared : {TRUE}, formula : Formulas(n)]

\* product_types of a planner from its declarations for T and U.
ProductTypesOf(forT, forU) ==
    LET d == [o \in {"T", "U"} |-> IF o = "T" THEN forT ELSE forU]
    IN  [o \in {x \in {"T", "U"} : d[x].declared} |-> d[o].formula]

\* The declarations drawn for the second planner of T.
SecondDeclarations ==
    {[declared |-> FALSE, formula |-> <<>>]}
    \cup [declared : {TRUE}, formula : {<<<<"N">>>>, <<<<"U">>>>, <<<<"N", "M">>>>}]

SolverRegistries ==
    {  ("p1" :> [goal_name |-> "g1", product_types |-> ProductTypesOf(t1, u1)])
    @@ ("p2" :> [goal_name |-> "g1",
                 product_types |-> ProductTypesOf(t2, [declared |-> FALSE, formula |-> <<>>])]) :
       t1 \in Declarations(MaxClauses), u1 \in Declarations(1), t2 \in SecondDeclarations }

SolverInputs == SUBSET {"N", "M", "T"}

SolverInit ==
    /\ planners \in SolverRegistries
    /\ \E input_products \in SolverInputs : products = [s \in Subjects |-> input_products]
    /\ request = [goals |-> <<>>, addressable_roots |-> <<"A">>]
    /\ pc = "solver"
    /\ loop = [goal |-> 1, product_types |-> <<>>, subject |-> 1, types |-> <<>>,
               stage |-> "goal"]
    /\ stack = <<>>
    /\ promises = EmptyMap
    /\ plans_index = EmptyMap
    /\ root_promises = <<>>
    /\ finalized = {}
    /\ error = NULL
    /\ returned = {}
    /\ last = NoEvent("init")
    /\ ncalls = 0
    /\ emitted = {}
    /\ plan_calls = {}
    /\ solver = NULL

\* self._apply_product_requirements(output_product_type, input_products, set(), defaultdict)
SolveRequirements ==
    /\ pc = "solver" /\ solver = NULL
    /\ \E output_product_type \in ProductTypes :
          LET r == ApplyProductRequirements(planners, output_product_type,
                                            products[Root], EmptyAcc, 0)
          IN  solver' = [op |-> "_apply_product_requirements",
                         output_product_type |-> output_product_type,
                         ok |-> r.ok, acc |-> r.acc]
    /\ UNCHANGED <<planners, products, request, pc, loop, stack, promises, plans_index,
                   root_promises, finalized, error, returned, last, ncalls, emitted, plan_calls>>

SolverNext == SolveRequirements

SolverSpec == SolverInit /\ [][SolverNext]_vars

\* ------------------------------------------------------------------------
\* Properties.

\* The steps in which a promise() call ends: on the fast path, by returning the
\* registered primary promise, or by raising.
Finishing(e) == e.op \in {"fast", "return", "raise"}

\* The steps in which promise() is called.
Calling(e) == e.op \in {"fast", "enter"}

\* Whether the product type of the call is a native product of its subject.
NativeOf(call) == call.product_type \in products[call.subject]

\* The graph returned by execution_graph.
Graph == walk(root_promises, promises)

RECURSIVE ReachableFrom(_, _, _)
\* The promises reachable from a set of promises through Plan.promises.
ReachableFrom(mapper, qs, n) ==
    LET more == qs \cup UNION {promised(mapper, q).promises :
                                  q \in {x \in qs : promised(mapper, x) # NULL}}
    IN  IF n = 0 \/ more = qs THEN qs ELSE ReachableFrom(mapper, more, n - 1)

ReachablePromises ==
    ReachableFrom(promises, Range(root_promises), Cardinality(DOMAIN promises) + 1)

\* C1: once promise() has returned a promise, every later promise() call with
\* the same arguments takes the fast path: it returns that same promise, no
\* planner's plan() runs (no planning starts), and neither the ProductMapper
\* nor the per-planner plan index changes.
C1_IdempotentPromising ==
    [][(Calling(last') /\ last'.again)
         => /\ last'.op = "fast"
            /\ last'.result = last'.call
            /\ Len(stack') <= Len(stack)
            /\ promises' = promises
            /\ plans_index' = plans_index
            /\ emitted' = emitted]_vars

\* A promise() call for a promise that promise() returned before.
C1_Witness == last.op = "fast" /\ last.again /\ last.call.configuration = "cN"

\* C2: after execution_graph has returned, every promise reachable from the
\* root promises has a plan in the ProductMapper.
C2_Coverage ==
    pc = "done" =>
        \A q \in ReachablePromises : q \in DOMAIN promises /\ promised(promises, q) # NULL

\* A returned graph in which a plan reached from a root embeds a promise that
\* is not a root promise.
C2_Witness ==
    /\ pc = "done"
    /\ \E q \in ReachablePromises : q \notin Range(root_promises)

\* C5: when promise() registers its single candidate and returns, the mapper
\* maps the promise of every subject of the plan to the plan, the plan is in
\* the plan index of its planner and product type, and the promise returned is
\* Promise(product_type, subject, configuration).
C5_SingleCandidateRegistered ==
    last.op = "return" =>
        /\ \A s \in last.plan.subjects :
              promised(promises, Promise(last.call.product_type, s,
                                         last.call.configuration)) = last.plan
        /\ last.plan \in Range(PlansOf(plans_index, last.planner, last.call.product_type))
        /\ last.result = last.call

\* promise() returns after registering a planner's plan for two subjects
\* under a configuration.
C5_Witness ==
    /\ last.op = "return"
    /\ last.planner \in TaskPlanners
    /\ last.plan.subjects = Subjects
    /\ last.call.configuration = "cN"

\* C9: in every state of the ProductMapper, the subject of each registered
\* promise is one of the subjects of the plan it maps to.
C9_RegisteredSubjectCovered ==
    \A q \in DOMAIN promises : q.subject \in promises[q].subjects

\* A failed registration (SchedulingError) that has left its stores in the
\* mapper: the rejected plan is registered for another subject.
C9_Witness ==
    /\ pc = "error" /\ error.kind = "SchedulingError"
    /\ \E q \in DOMAIN promises :
          /\ q.subject # error.subject
          /\ error.subject \notin promises[q].subjects
          /\ promises[q].func_or_task_type \in Range(error.planners)

\* ------------------------------------------------------------------------
\* The requirement solver against the producibility rule.

\* One application of the rule: the native products, and the outputs of a
\* planner one of whose clauses has every requirement in S.
ProducibleStep(reg, input_products, S) ==
    input_products
    \cup {o \in OutputProducts(reg) :
            \E p \in DOMAIN reg :
                /\ o \in DOMAIN reg[p].product_types
                /\ \E j \in 1..Len(reg[p].product_types[o]) :
                      Range(reg[p].product_types[o][j]) \subseteq S}

RECURSIVE ProducibleIter(_, _, _, _)
ProducibleIter(reg, input_products, S, n) ==
    IF n = 0 THEN S
    ELSE ProducibleIter(reg, input_products, ProducibleStep(reg, input_products, S), n - 1)

\* The least fixpoint of the rule.
Producible(reg, input_products) ==
    ProducibleIter(reg, input_products, {}, Cardinality(ProductTypes) + 1)

\* The requirements of an output: the types in the clauses its planners declare.
RequirementsOf(reg, o) ==
    UNION {UNION {Range(anded_clause) : anded_clause \in Range(reg[p].product_types[o])} :
              p \in {x \in DOMAIN reg : o \in DOMAIN reg[x].product_types}}

RECURSIVE RequiredBelow(_, _, _)
\* The types reachable from a set of types through the requirements.
RequiredBelow(reg, S, n) ==
    LET more == S \cup UNION {RequirementsOf(reg, o) : o \in S \cap OutputProducts(reg)}
    IN  IF n = 0 \/ more = S THEN S ELSE RequiredBelow(reg, more, n - 1)

\* No output type requires itself, directly or through other outputs.
AcyclicRequirements(reg) ==
    \A o \in OutputProducts(reg) :
        o \notin RequiredBelow(reg, RequirementsOf(reg, o), Cardinality(ProductTypes))

\* C10: for every registry whose requirement graph is acyclic and every set of
\* native products, _apply_product_requirements(O) returns without exhausting
\* the stack and returns true exactly when O is in the least fixpoint of the
\* rule "native, or an output of a planner one of whose clauses has every
\* requirement producible"; an O that is neither native nor the output of any
\* planner is not producible.
C10_SolverResult ==
    (solver # NULL /\ AcyclicRequirements(planners)) =>
        /\ ~solver.acc.overflow
        /\ solver.ok <=> solver.output_product_type \in Producible(planners, products["A"])
        /\ (/\ solver.output_product_type \notin products["A"]
            /\ solver.output_product_type \notin OutputProducts(planners)) => ~solver.ok

\* T is not native and is produced through U, which is produced from the
\* native N, while another clause of T is not satisfied.
C10_Witness ==
    /\ solver # NULL /\ AcyclicRequirements(planners)
    /\ solver.output_product_type = "T" /\ solver.ok
    /\ "T" \notin products["A"]
    /\ "U" \in solver.acc.fc /\ "N" \in solver.acc.fc
    /\ "U" \notin products["A"]

\* ------------------------------------------------------------------------
\* The walk, the plan index and the ends of promise().

\* The plans the promises reachable from the roots resolve to.
ReachablePlans == {promised(promises, q) : q \in ReachablePromises} \ {NULL}

\* The positions at which the walk yields a plan.
YieldsOf(yielded, plan) == {i \in 1..Len(yielded) : yielded[i][2] = plan}

\* How many times a plan occurs in a list of plans.
Occurrences(plans, plan) == Cardinality({i \in 1..Len(plans) : plans[i] = plan})

\* C3: the walk of the returned graph yields every plan reachable from the
\* root promises, each exactly once, each only after every plan that one of
\* its promises resolves to, and each paired with a promise that resolves to
\* it.
C3_PostOrder ==
    pc = "done" =>
        LET graph == Graph
            yielded == graph.yielded
        IN  /\ ~graph.failed
            /\ \A plan \in ReachablePlans : Cardinality(YieldsOf(yielded, plan)) = 1
            /\ \A i \in 1..Len(yielded) :
                  /\ yielded[i][2] \in ReachablePlans
                  /\ promised(promises, yielded[i][1]) = yielded[i][2]
                  /\ \A q \in yielded[i][2].promises :
                        \E j \in 1..(i - 1) : yielded[j][2] = promised(promises, q)

\* A planner returned the plan of the last promise() to return for another
\* subject before, and that subject has been promised.
EmittedBefore(e) ==
    /\ e.plan = last.plan
    /\ e.planner = last.planner
    /\ e.product_type = last.call.product_type
    /\ e.subject # last.call.subject
    /\ \E c \in Configurations : Promise(e.product_type, e.subject, c) \in returned

\* C4: when a planner returns equal plans for two distinct subjects, the plan
\* index holds the plan once, the promises of both subjects resolve to the
\* plan, and the walk of the returned graph yields no plan twice and yields
\* every reachable plan.
C4_StructuralDedup ==
    /\ \A key \in DOMAIN plans_index :
          \A plan \in Range(plans_index[key]) : Occurrences(plans_index[key], plan) = 1
    /\ last.op = "return" =>
          \A e \in {x \in emitted : EmittedBefore(x)} :
              /\ Occurrences(PlansOf(plans_index, e.planner, e.product_type), e.plan) = 1
              /\ \A s \in {e.subject, last.call.subject} :
                    promised(promises, Promise(e.product_type, s, last.call.configuration))
                        = e.plan
    /\ pc = "done" =>
          LET yielded == Graph.yielded
          IN  /\ \A i, j \in 1..Len(yielded) : yielded[i][2] = yielded[j][2] => i = j
              /\ \A plan \in ReachablePlans : Cardinality(YieldsOf(yielded, plan)) = 1

\* A returned graph whose walk yields a plan that a planner returned for two
\* distinct subjects.
C4_Witness ==
    /\ pc = "done"
    /\ \E e1, e2 \in emitted :
          /\ e1.plan = e2.plan /\ e1.planner = e2.planner
          /\ e1.product_type = e2.product_type
          /\ e1.subject # e2.subject
          /\ e1.plan \in Range(PlansOf(plans_index, e1.planner, e1.product_type))
          /\ YieldsOf(Graph.yielded, e1.plan) # {}

\* The exception a session ended with.
ErrorKind(e) == IF e = NULL THEN "none" ELSE e.kind

\* The number of candidates of a promise() call: the plans its planners
\* returned and the native product.
Candidates(e) == e.nonnull + (IF NativeOf(e.call) THEN 1 ELSE 0)

C7_ConflictingProducers ==
    [][(Finishing(last') /\ ~last'.planned) =>
          LET raised == last'.op = "raise" /\ ErrorKind(error') = "ConflictingProducersError"
          IN  /\ raised <=> Candidates(last') >= 2
              /\ raised => /\ pc' = "error"
                           /\ Len(error'.planners) = Candidates(last')
                           /\ NativeOf(last'.call) => NoPlanner \in Range(error'.planners)
                           /\ promises' = promises
                           /\ plans_index' = plans_index]_vars

\* One plan of a planner and a native product of the same type conflict.
C7_Witness ==
    /\ last.op = "raise" /\ ErrorKind(error) = "ConflictingProducersError"
    /\ last.nonnull = 1 /\ NativeOf(last.call)

\* C8: when the single candidate's plan does not cover the subject being
\* promised, promise() ends by raising SchedulingError and the call records
\* nothing in the plan index.
C8_RejectedRegistration ==
    [][(/\ stack # <<>>
        /\ last'.op \in {"return", "raise"}
        /\ Len(Top.plans \o NativeCandidates(Top)) = 1
        /\ Top.subject \notin (Top.plans \o NativeCandidates(Top))[1][2].subjects)
         => /\ pc' = "error"
            /\ ErrorKind(error') = "SchedulingError"
            /\ last'.op = "raise"
            /\ plans_index' = plans_index]_vars

\* SchedulingError for a plan the plan index does not hold.
C8_Witness ==
    /\ last.op = "raise" /\ ErrorKind(error) = "SchedulingError"
    /\ \A key \in DOMAIN plans_index :
          \A plan \in Range(plans_index[key]) : last.call.subject \in plan.subjects

\* ------------------------------------------------------------------------
\* produced_types_for_subject applied to the registries and native products
\* of the solver specification.

\* The candidate output lists: execution_graph passes the output types of a
\* goal's planners, without repetition, in any order.
CandidateLists == {<<>>, <<"T">>, <<"U">>, <<"T", "U">>, <<"U", "T">>}

\* self._planners.produced_types_for_subject(subject, product_types)
ProducedTypes ==
    /\ pc = "solver" /\ solver = NULL
    /\ \E output_product_types \in CandidateLists :
          solver' = [op |-> "produced_types_for_subject",
                     output_product_types |-> output_product_types,
                     result |-> produced_types_for_subject(planners, products[Root],
                                                           output_product_types)]
    /\ UNCHANGED <<planners, products, request, pc, loop, stack, promises, plans_index,
                   root_promises, finalized, error, returned, last, ncalls, emitted, plan_calls>>

\* produced_types_for_subject for a subject and for the same subject with
\* one more native product type.
ProducedTypesEnlarged ==
    /\ pc = "solver" /\ solver = NULL
    /\ \E output_product_types \in CandidateLists :
       \E extra \in ProductTypes \ products[Root] :
          solver' = [op |-> "enlarged",
                     output_product_types |-> output_product_types,
                     result |-> produced_types_for_subject(planners, products[Root],
                                                           output_product_types),
                     extra |-> extra,
                     enlarged |-> produced_types_for_subject(planners,
                                                             products[Root] \cup {extra},
                                                             output_product_types)]
    /\ UNCHANGED <<planners, products, request, pc, loop, stack, promises, plans_index,
                   root_promises, finalized, error, returned, last, ncalls, emitted, plan_calls>>

ProducedNext == ProducedTypes

EnlargedNext == ProducedTypesEnlarged

EnlargedSpec == SolverInit /\ [][EnlargedNext]_vars

ProducedSpec == SolverInit /\ [][ProducedNext]_vars

\* What the accumulators must hold, stated without the recursion, given the
\* set P of producible types: a clause is satisfied when all its requirements
\* are in P; of a planner's formula the clauses up to the first satisfied one
\* are evaluated; the outputs whose planners are visited are the candidates
\* and the requirements of evaluated clauses, unless native or without planner.
Satisfied(P, anded_clause) == Range(anded_clause) \subseteq P

EvaluatedClauses(P, ored_clauses) ==
    {j \in 1..Len(ored_clauses) : \A k \in 1..(j - 1) : ~Satisfied(P, ored_clauses[k])}

Expanded(reg, input_products, o) == o \in OutputProducts(reg) \ input_products

PlannersOf(reg, o) == {p \in DOMAIN reg : o \in DOMAIN reg[p].product_types}

\* The evaluated clauses of the planners of the outputs in V, as
\* <<output, planner, clause>>.
EvaluatedOf(reg, P, V) ==
    UNION {UNION {{<<o, p, reg[p].product_types[o][j]>> :
                      j \in EvaluatedClauses(P, reg[p].product_types[o])} :
                  p \in PlannersOf(reg, o)} : o \in V}

RECURSIVE VisitedOutputs(_, _, _, _, _)
VisitedOutputs(reg, input_products, P, V, n) ==
    LET more == V \cup {r \in UNION {Range(x[3]) : x \in EvaluatedOf(reg, P, V)} :
                          Expanded(reg, input_products, r)}
    IN  IF n = 0 \/ more = V THEN V
        ELSE VisitedOutputs(reg, input_products, P, more, n - 1)

Visited(reg, input_products, P, output_product_types) ==
    VisitedOutputs(reg, input_products, P,
                   {o \in Range(output_product_types) : Expanded(reg, input_products, o)},
                   Cardinality(ProductTypes))

\* The product types of the satisfied clauses among the evaluated ones.
ExpectedFullyConsumed(P, evaluated) ==
    UNION {Range(x[3]) : x \in {y \in evaluated : Satisfied(P, y[3])}}

\* consumed -> planner -> unconsumed of the evaluated clauses of which some
\* but not all requirements are producible.
ExpectedPartials(P, evaluated) ==
    UNION {{<<k, x[2], u>> : k \in Range(x[3]) \cap P, u \in Range(x[3]) \ P} :
              x \in evaluated}

\* C11: on registries with an acyclic requirement graph,
\* produced_types_for_subject raises PartiallyConsumedInputsError exactly when a
\* product some evaluated clause partially consumed is in no satisfied
\* evaluated clause; the map of the error holds exactly those products with
\* their per-planner unconsumed requirements; otherwise the result is the
\* producible candidates in candidate order.
C11_PartiallyConsumed ==
    (solver # NULL /\ AcyclicRequirements(planners)) =>
        LET candidates == solver.output_product_types
            P == Producible(planners, products["A"])
            evaluated == EvaluatedOf(planners, P,
                                     Visited(planners, products["A"], P, candidates))
            fully == ExpectedFullyConsumed(P, evaluated)
            hard == {t \in ExpectedPartials(P, evaluated) : t[1] \notin fully}
        IN  /\ ~solver.result.overflow
            /\ solver.result.raises <=> hard # {}
            /\ solver.result.partially_consumed = hard
            /\ ~solver.result.raises =>
                  solver.result.producible_output_types =
                      SelectSeq(candidates, LAMBDA o : o \in P)

\* T needs N and M, only N is native and nothing produces M: the error maps
\* the consumed N to the planner and its unconsumed M.
C11_Witness ==
    /\ solver # NULL /\ AcyclicRequirements(planners)
    /\ products["A"] = {"N"}
    /\ solver.output_product_types = <<"T", "U">>
    /\ solver.result.raises
    /\ solver.result.partially_consumed = {<<"N", "p1", "M">>}

\* The call returned a list: it neither raised nor exhausted the stack.
Returns(result) == ~result.raises /\ ~result.overflow

\* C12 as stated: when produced_types_for_subject returns a list R for a
\* native product set, it returns a list containing every type of R for the
\* set enlarged by one product type.
C12_Monotone ==
    (solver # NULL /\ solver.op = "enlarged" /\ Returns(solver.result)) =>
        /\ Returns(solver.enlarged)
        /\ Range(solver.result.producible_output_types)
              \subseteq Range(solver.enlarged.producible_output_types)

\* C12: when produced_types_for_subject returns a list R for a native product
\* set, then for the set enlarged by one product type the solver terminates
\* and finds every type of R producible, in the same order, and
\* produced_types_for_subject returns them unless it raises
\* PartiallyConsumedInputsError.
C12_MonotoneUnlessPartial ==
    (solver # NULL /\ solver.op = "enlarged" /\ Returns(solver.result)) =>
        /\ ~solver.enlarged.overflow
        /\ Range(solver.result.producible_output_types)
              \subseteq Range(solver.enlarged.producible_output_types)
        /\ solver.result.producible_output_types =
              SelectSeq(solver.enlarged.producible_output_types,
                        LAMBDA o : o \in Range(solver.result.producible_output_types))

\* U is returned for the natives {N}; with M added, T's clause consumes M but
\* lacks another requirement, and the call raises instead of returning U.
C12_Witness ==
    /\ solver # NULL /\ solver.op = "enlarged" /\ Returns(solver.result)
    /\ solver.result.producible_output_types # <<>>
    /\ solver.enlarged.raises
    /\ \E t \in solver.enlarged.partially_consumed : t[1] = solver.extra

\* The formula of a planner for an output is unsatisfied from the native
\* products and would be satisfied with the one extra input m, which no planner
\* produces.
OneInputShort(reg, input_products, o, p, m) ==
    /\ m \notin input_products /\ m \notin OutputProducts(reg)
    /\ \A j \in 1..Len(reg[p].product_types[o]) :
          ~Satisfied(Producible(reg, input_products), reg[p].product_types[o][j])
    /\ \E j \in 1..Len(reg[p].product_types[o]) :
          Satisfied(Producible(reg, input_products \cup {m}), reg[p].product_types[o][j])

\* C13 as stated: whenever the formula of a planner for a candidate output
\* would be satisfied by one extra input that no planner produces,
\* produced_types_for_subject raises PartiallyConsumedInputsError and the
\* error mentions that input.
C13_OneShortRaises ==
    (solver # NULL /\ AcyclicRequirements(planners)) =>
        \A o \in Range(solver.output_product_types) :
            \A p \in PlannersOf(planners, o) : \A m \in ProductTypes :
                OneInputShort(planners, products["A"], o, p, m) =>
                    /\ solver.result.raises
                    /\ \E t \in solver.result.partially_consumed : t[2] = p /\ t[3] = m

\* C13: on registries with an acyclic requirement graph, when a candidate
\* output is not producible and a clause of one of its planners has a
\* producible requirement k and exactly one requirement m that is not
\* producible, m being neither native nor any planner's output, then k -> {planner: {m}}
\* is recorded as partially consumed, and produced_types_for_subject raises
\* PartiallyConsumedInputsError with that entry unless k is a requirement of a
\* satisfied clause evaluated during the call.
C13_PartialRaises ==
    (solver # NULL /\ AcyclicRequirements(planners)) =>
        LET P == Producible(planners, products["A"])
            evaluated == EvaluatedOf(planners, P,
                                     Visited(planners, products["A"], P,
                                             solver.output_product_types))
            fully == ExpectedFullyConsumed(P, evaluated)
        IN  \A o \in Range(solver.output_product_types) \ P :
                \A p \in PlannersOf(planners, o) :
                    \A anded_clause \in Range(planners[p].product_types[o]) :
                        \A m \in Range(anded_clause) \ (P \cup OutputProducts(planners)) :
                            (Range(anded_clause) \ P = {m}) =>
                                \A k \in (Range(anded_clause) \cap P) \ fully :
                                    /\ solver.result.raises
                                    /\ <<k, p, m>> \in solver.result.partially_consumed

\* T is the only candidate, a clause of p1 for T needs the native N and the
\* missing M, and the error maps N to p1's missing M.
C13_Witness ==
    /\ solver # NULL /\ AcyclicRequirements(planners)
    /\ solver.output_product_types = <<"T">>
    /\ "T" \in DOMAIN planners["p1"].product_types
    /\ <<"N", "M">> \in Range(planners["p1"].product_types["T"])
    /\ "M" \notin products["A"] /\ "N" \in products["A"]
    /\ solver.result.raises
    /\ <<"N", "p1", "M">> \in solver.result.partially_consumed

\* C14: for every registry and every native product set, the requirement
\* solver returns: the recursion of _apply_product_requirements does not
\* exhaust the stack, also when an output requires itself.
C14_SolverTerminates ==
    (solver # NULL /\ solver.op = "_apply_product_requirements") => ~solver.acc.overflow

\* ------------------------------------------------------------------------
\* Finalization.

\* The plans a planner returned from plan() for a product type.
EmittedPlans(planner, product_type) ==
    {e.plan : e \in {x \in emitted : x.planner = planner /\ x.product_type = product_type}}

\* The (planner, product_type) whose plans the step hands to finalize_plans.
FinalizedNow(item) ==
    /\ item \in DOMAIN plans_index \ finalized
    /\ finalized' = finalized \cup {item}
    /\ item[1] = last'.planner
    /\ item[2] = last'.call.product_type

\* C15: finalize_plans is invoked only when the loops over goals and subjects
\* are over and no promise() call is in progress, and after an invocation no
\* plan() is called or returns; each invocation is for a (planner, product
\* type) with recorded plans that was not finalized before, and by the time
\* the graph is returned every such pair was finalized; the plans handed to a
\* planner are, without duplicates, exactly the plans it returned for the
\* product type, nested promise() calls included (in the order of their
\* registration).
C15_FinalizationOrder ==
    [][/\ last'.op = "finalize" =>
             /\ pc = "finalizing" /\ stack = <<>>
             /\ loop.goal > Len(request.goals)
             /\ \E item \in DOMAIN plans_index : FinalizedNow(item)
             /\ \A item \in DOMAIN plans_index :
                   FinalizedNow(item) =>
                      /\ \A plan \in Range(plans_index[item]) :
                            Occurrences(plans_index[item], plan) = 1
                      /\ item[1] \in TaskPlanners =>
                            Range(plans_index[item]) = EmittedPlans(item[1], item[2])
       /\ finalized # {} =>
             /\ last'.op \in {"finalize", "done"}
             /\ emitted' = emitted /\ plans_index' = plans_index /\ stack' = <<>>
       /\ last'.op # "finalize" => finalized' = finalized
       /\ pc' = "done" =>
             /\ finalized' = DOMAIN plans_index
             /\ \A e \in emitted : <<e.planner, e.product_type>> \in finalized'
      ]_vars

\* finalize_plans was just invoked for a planner with two recorded plans, one
\* of them registered for a promise with a configuration, which only a nested
\* promise() call requests.
C15_Witness ==
    /\ last.op = "finalize" /\ last.planner \in TaskPlanners
    /\ LET plans == PlansOf(plans_index, last.planner, last.call.product_type)
       IN  /\ Len(plans) >= 2
           /\ \E q \in DOMAIN promises :
                 q.configuration = "cN" /\ promises[q] \in Range(plans)

\* The plans of an index entry are per-subject plans: each for one subject,
\* no two for the same subject.
PerSubject(plans) ==
    /\ \A i \in 1..Len(plans) : Cardinality(plans[i].subjects) = 1
    /\ \A i, j \in 1..Len(plans) : plans[i].subjects = plans[j].subjects => i = j

\* The single plan an aggregating planner returns for all the subjects of
\* the plans it is handed.
AggregateOf(planner, plans) ==
    Plan(planner, UNION {plans[i].subjects : i \in 1..Len(plans)},
         UNION {plans[i].promises : i \in 1..Len(plans)}, <<"finalized">>)

\* The root promises for a product type and one of the subjects.
RootsFor(product_type, subjects) ==
    {i \in 1..Len(root_promises) :
        /\ root_promises[i].product_type = product_type
        /\ root_promises[i].subject \in subjects}

\* The entry of the plan index was aggregated: its plans are per-subject
\* plans, each for a root of the request, and finalize_plans returned the one
\* plan that covers all their subjects.
Aggregated(item) ==
    LET plans == plans_index[item]
        agg == AggregateOf(item[1], plans)
    IN  /\ item[1] \in AggregatingPlanners
        /\ item \in finalized
        /\ PerSubject(plans)
        /\ \A s \in agg.subjects :
              \E i \in RootsFor(item[2], {s}) : TRUE
        /\ \E q \in DOMAIN promises : promises[q] = agg

\* C16: when a planner returned N per-subject plans for the roots and
\* finalize_plans returns one plan covering the N subjects, then in the
\* returned graph every one of the N root promises resolves to the aggregated
\* plan, and the walk yields the aggregated plan exactly once and yields none
\* of the N replaced plans.
C16_Aggregation ==
    pc = "done" =>
        \A item \in DOMAIN plans_index :
            Aggregated(item) =>
                LET plans == plans_index[item]
                    agg == AggregateOf(item[1], plans)
                    yielded == Graph.yielded
                IN  /\ \A i \in RootsFor(item[2], agg.subjects) :
                          promised(promises, root_promises[i]) = agg
                    /\ Cardinality(YieldsOf(yielded, agg)) = 1
                    /\ \A i \in 1..Len(plans) : YieldsOf(yielded, plans[i]) = {}

\* The plans finalize_plans returned in place of the plans it was handed, as
\* the mapper holds them, with the product type they were registered for.
Replacements ==
    {<<q.product_type, promises[q]>> :
        q \in {r \in DOMAIN promises : promises[r].data = <<"finalized">>}}

\* C17: once finalization has replaced plans, every promise that promise()
\* returned for the product type, whatever its configuration, whose subject
\* is among the subjects of a replacement plan resolves to that plan.
C17_ReplacementResolves ==
    \A replacement \in Replacements :
        \A q \in returned :
            (q.product_type = replacement[1] /\ q.subject \in replacement[2].subjects)
                => promised(promises, q) = replacement[2]

\* ------------------------------------------------------------------------
\* Root promises.

\* The order in which the planners were handed to Planners(planners).
RegistrationOrder == <<"p1", "p2">>

RECURSIVE RegisteredTypes(_, _, _)

\* The output types of the goal's planners from the i-th registered planner
\* on, each once, in the planners' registration order.
RegisteredTypes(reg, goal, i) ==
    IF i > Len(RegistrationOrder) THEN <<>>
    ELSE LET p == RegistrationOrder[i]
             rest == RegisteredTypes(reg, goal, i + 1)
             own == IF p \in for_goal(reg, goal)
                    THEN CHOOSE order \in Perms(DOMAIN reg[p].product_types) : TRUE
                    ELSE <<>>
         IN  own \o SelectSeq(rest, LAMBDA t : t \notin Range(own))

RECURSIVE RootsOfGoal(_, _)

\* The root promises of a goal from the j-th root on: for each root, one per
\* producible output type, in the planners' registration order.
RootsOfGoal(goal, j) ==
    IF j > Len(request.addressable_roots) THEN <<>>
    ELSE LET subject == request.addressable_roots[j]
             types == produced_types_for_subject(planners, products[subject],
                          RegisteredTypes(planners, goal, 1)).producible_output_types
         IN  [i \in 1..Len(types) |-> Promise(types[i], subject, None)]
                 \o RootsOfGoal(goal, j + 1)

RECURSIVE RootsFromGoal(_)

\* The root promises from the g-th goal of the request on.
RootsFromGoal(g) ==
    IF g > Len(request.goals) THEN <<>>
    ELSE RootsOfGoal(request.goals[g], 1) \o RootsFromGoal(g + 1)

\* C18: the root promises of the returned graph are the promises taken goal
\* by goal in request order, within a goal root by root, and within a root
\* one per producible output type in the planners' registration order.
C18_RootPromiseOrder ==
    pc = "done" => root_promises = RootsFromGoal(1)

\* ------------------------------------------------------------------------
\* Native products.

\* The build request asks for one product type of one root, the product is
\* native to the root, and no planner returned a plan for it.
NativeRequest(product_type, subject) ==
    /\ Len(request.goals) = 1 /\ request.addressable_roots = <<subject>>
    /\ GoalProductTypes(planners, request.goals[1]) = {product_type}
    /\ product_type \in products[subject]
    /\ \A e \in emitted : ~(e.product_type = product_type /\ e.subject = subject)

\* C19: when promise() returns for a product that is native to the subject
\* and no planner returned a plan, the plan it registered for the promise is
\* the plan of lift_native_product for exactly {subject}; and the graph
\* returned for a request of such a product has one root promise, and its
\* walk yields that promise with that plan and nothing else.
C19_NativeLift ==
    /\ (last.op = "return" /\ NativeOf(last.call) /\ last.nonnull = 0) =>
          /\ last.planner = NoPlanner
          /\ last.plan.func_or_task_type = lift_native_product
          /\ last.plan.subjects = {last.call.subject}
          /\ last.result = last.call
          /\ promised(promises, last.call) = last.plan
    /\ pc = "done" =>
          \A t \in ProductTypes, s \in Subjects :
              NativeRequest(t, s) =>
                  LET root == Promise(t, s, None)
                      plan == promised(promises, root)
                  IN  /\ root_promises = <<root>>
                      /\ plan # NULL
                      /\ plan.func_or_task_type = lift_native_product
                      /\ plan.subjects = {s}
                      /\ ~Graph.failed
                      /\ Graph.yielded = <<<<root, plan>>>>

\* The graph returned for a request of a native product, for which a planner
\* was asked and returned no plan.
C19_Witness ==
    /\ pc = "done"
    /\ \E t \in ProductTypes, s \in Subjects :
          /\ NativeRequest(t, s)
          /\ for_product_type_and_subject(planners, t, products[s], None) # <<>>
          /\ Len(root_promises) = 1
          /\ promised(promises, root_promises[1]).func_or_task_type = lift_native_product

\* ------------------------------------------------------------------------
\* Subject and Promise objects, and the ProductMapper on its own: plans over
\* subjects with alternates are registered, and the dict is keyed by Promise
\* objects through their __hash__ and __eq__.

\* A subject's alternate: none, or another object.
Alternates == {None, "X"}

\* Subject(primary, alternate).
Subject(primary, alternate) == [primary |-> primary, alternate |-> alternate]

SubjectObjects == {Subject(primary, alternate) : primary \in Subjects, alternate \in Alternates}

\* Subject.__hash__: hash(self._primary).
SubjectHash(subject) == subject.primary

\* Subject.__eq__: the primaries are equal.
SubjectEq(a, b) == a.primary = b.primary

\* Promise.__init__ with a Subject: the object keeps the subject it was given.
PromiseObject(product_type, subject, configuration) ==
    [product_type |-> product_type, subject |-> subject, configuration |-> configuration]

PromiseObjects ==
    {PromiseObject(t, s, c) : t \in {"T", "U"}, s \in SubjectObjects, c \in Configurations}

\* A faulty key: the alternate takes part in the identity of a promise.
Promise_key_with_alternate(promise) ==
    <<promise.product_type, promise.subject, promise.configuration>>

\* Promise._key.
Promise_key(promise) ==
    <<promise.product_type, promise.subject.primary, promise.configuration>>

\* Promise.__hash__: hash(self._key()).
PromiseHash(promise) == Promise_key(promise)

\* Promise.__eq__: the keys are equal.
PromiseEq(a, b) == Promise_key(a) = Promise_key(b)

\* dict lookup: the entries whose key has the hash of `key` and equals it.
DictFind(entries, key) ==
    {e \in entries : PromiseHash(e[1]) = PromiseHash(key) /\ PromiseEq(e[1], key)}

\* self._promises[promise] = plan: the value of an equal key is replaced (the
\* dict keeps the key object it has), otherwise the entry is added.
DictStore(entries, key, value) ==
    IF DictFind(entries, key) = {} THEN entries \cup {<<key, value>>}
    ELSE {IF e \in DictFind(entries, key) THEN <<e[1], value>> ELSE e : e \in entries}

\* self._promises.get(promise)
DictGet(entries, key) ==
    IF DictFind(entries, key) = {} THEN NULL
    ELSE (CHOOSE e \in DictFind(entries, key) : TRUE)[2]

\* frozenset(Subject.as_subject(subject) for subject in subjects): the sets of
\* Subject objects, no two of them equal.
SubjectSets ==
    {ss \in SUBSET SubjectObjects :
        ss # {} /\ \A a, b \in ss : SubjectEq(a, b) => a = b}

\* The plans registered with the mapper.
MapperPlans ==
    {[func_or_task_type |-> task, subjects |-> ss] : task \in TaskPlanners, ss \in SubjectSets}

RECURSIVE StoreAll(_, _, _, _, _)

\* for subject in plan.subjects: self._promises[Promise(product_type, subject,
\* configuration=configuration)] = plan
StoreAll(entries, product_type, plan, configuration, todo) ==
    IF todo = {} THEN entries
    ELSE LET subject == CHOOSE s \in todo : TRUE
         IN  StoreAll(DictStore(entries, PromiseObject(product_type, subject, configuration),
                                plan),
                      product_type, plan, configuration, todo \ {subject})

MapperInit ==
    /\ planners = Registry1
    /\ products = [s \in Subjects |-> {}]
    /\ request = [goals |-> <<>>, addressable_roots |-> <<>>]
    /\ pc = "mapper"
    /\ loop = [goal |-> 1, product_types |-> <<>>, subject |-> 1, types |-> <<>>,
               stage |-> "goal"]
    /\ stack = <<>>
    /\ promises = EmptyMap
    /\ plans_index = EmptyMap
    /\ root_promises = <<>>
    /\ finalized = {}
    /\ error = NULL
    /\ returned = {}
    /\ last = NoEvent("init")
    /\ ncalls = 0
    /\ emitted = {}
    /\ plan_calls = {}
    /\ solver = [op |-> "ProductMapper", entries |-> {}, registrations |-> 0]

\* ProductMapper.register_promises(product_type, plan, configuration=configuration)
RegisterPromises ==
    /\ pc = "mapper" /\ solver.registrations < MaxRegistrations
    /\ \E product_type \in {"T", "U"}, plan \in MapperPlans, configuration \in Configurations :
          solver' = [op |-> "register_promises",
                     entries |-> StoreAll(solver.entries, product_type, plan, configuration,
                                          plan.subjects),
                     registrations |-> solver.registrations + 1,
                     product_type |-> product_type, plan |-> plan,
                     configuration |-> configuration]
    /\ UNCHANGED <<planners, products, request, pc, loop, stack, promises, plans_index,
                   root_promises, finalized, error, returned, last, ncalls, emitted, plan_calls>>

MapperNext == RegisterPromises

MapperSpec == MapperInit /\ [][MapperNext]_vars

\* Two promises are for the same product type, primary and configuration.
SameIdentity(a, b) ==
    /\ a.product_type = b.product_type
    /\ a.subject.primary = b.subject.primary
    /\ a.configuration = b.configuration

\* C20: a promise equals a promise held by the mapper exactly when they have
\* the same product type, primary subject and configuration, whatever their
\* alternates, and then they hash the same and the mapper returns the same
\* plan for both; the mapper holds at most one plan per (product type,
\* primary, configuration), and promises that differ in one of the three are
\* unequal.
C20_PromiseIdentity ==
    pc = "mapper" =>
        /\ \A e \in solver.entries : \A q \in PromiseObjects :
              /\ PromiseEq(e[1], q) <=> SameIdentity(e[1], q)
              /\ SameIdentity(e[1], q) =>
                    /\ PromiseHash(e[1]) = PromiseHash(q)
                    /\ DictGet(solver.entries, q) = e[2]
        /\ \A e1, e2 \in solver.entries : SameIdentity(e1[1], e2[1]) => e1 = e2
        /\ solver.op = "register_promises" =>
              \A s \in solver.plan.subjects : \A alternate \in Alternates :
                  DictGet(solver.entries,
                          PromiseObject(solver.product_type, Subject(s.primary, alternate),
                                        solver.configuration)) = solver.plan

\* A plan was registered over the plan of a promise with the same product
\* type, primary and configuration and another alternate.
C20_Witness ==
    /\ pc = "mapper" /\ solver.op = "register_promises"
    /\ \E e \in solver.entries :
          /\ e[2] = solver.plan
          /\ e[1].product_type = solver.product_type
          /\ e[1].configuration = solver.configuration
          /\ \E s \in solver.plan.subjects :
                s.primary = e[1].subject.primary /\ s.alternate # e[1].subject.alternate

\* ------------------------------------------------------------------------
\* The dependency graph of the registered plans.

\* The plans a plan depends on, directly or through other plans: the plans
\* the mapper holds for the promises reachable from the plan's promises.
DependenciesOf(mapper, plan) ==
    {promised(mapper, q) :
        q \in ReachableFrom(mapper, plan.promises, Cardinality(DOMAIN mapper) + 1)} \ {NULL}

\* C21: in every state of a session, no plan registered in the ProductMapper
\* depends on itself through Plan.promises: the dependency graph is acyclic.
C21_Acyclic ==
    \A q \in DOMAIN promises : promises[q] \notin DependenciesOf(promises, promises[q])

\* ------------------------------------------------------------------------
\* Planner lookup on its own.

\* self._planners.for_product_type_and_subject(product_type, subject, configuration)
ForProductTypeAndSubject ==
    /\ pc = "solver" /\ solver = NULL
    /\ \E product_type \in ProductTypes, configuration \in Configurations :
          solver' = [op |-> "for_product_type_and_subject",
                     product_type |-> product_type, configuration |-> configuration,
                     result |-> for_product_type_and_subject(planners, product_type,
                                                             products[Root], configuration)]
    /\ UNCHANGED <<planners, products, request, pc, loop, stack, promises, plans_index,
                   root_promises, finalized, error, returned, last, ncalls, emitted, plan_calls>>

LookupNext == ForProductTypeAndSubject

LookupSpec == SolverInit /\ [][LookupNext]_vars

\* The clauses evaluated on behalf of one planner of a product type: of its
\* own formula, and of the formulas of the outputs its evaluated clauses
\* require, recursively.
EvaluatedFor(reg, input_products, P, planner, product_type) ==
    LET formula == reg[planner].product_types[product_type]
        own == {<<product_type, planner, formula[j]>> : j \in EvaluatedClauses(P, formula)}
        below == VisitedOutputs(reg, input_products, P,
                                {r \in UNION {Range(x[3]) : x \in own} :
                                    Expanded(reg, input_products, r)},
                                Cardinality(ProductTypes))
    IN  own \cup EvaluatedOf(reg, P, below)

\* The planners the lookup must yield: they list the product type, one of
\* their clauses has every requirement producible from the native products,
\* and the type of a requested configuration is in a clause satisfied on the
\* planner's own behalf.
ExpectedPlanners(reg, input_products, product_type, configuration) ==
    LET P == Producible(reg, input_products)
    IN  {p \in PlannersOf(reg, product_type) :
            /\ \E j \in 1..Len(reg[p].product_types[product_type]) :
                  Satisfied(P, reg[p].product_types[product_type][j])
            /\ \/ configuration = None
               \/ TypeOfConfiguration(configuration) \in
                     ExpectedFullyConsumed(P, EvaluatedFor(reg, input_products, P, p,
                                                           product_type))}

\* C22: on registries with an acyclic requirement graph,
\* for_product_type_and_subject yields, each once, exactly the planners that
\* list the product type and whose formula is satisfiable from the subject's
\* native products; with a configuration, exactly those of them whose own
\* fully consumed set holds the type of the configuration.
C22_PlannerLookup ==
    (solver # NULL /\ AcyclicRequirements(planners)) =>
        /\ Range(solver.result) =
              ExpectedPlanners(planners, products["A"], solver.product_type,
                               solver.configuration)
        /\ \A i, j \in 1..Len(solver.result) : solver.result[i] = solver.result[j] => i = j

\* Two planners can produce the product type, and the lookup with a
\* configuration yields only the one that consumes the configuration's type.
C22_Witness ==
    /\ solver # NULL /\ AcyclicRequirements(planners)
    /\ solver.configuration # None
    /\ Len(solver.result) = 1
    /\ Cardinality(ExpectedPlanners(planners, products["A"], solver.product_type, None)) = 2

\* ------------------------------------------------------------------------
\* ProductMapper.register_promises called directly, with and without a
\* primary subject, on a mapper that keeps its entries from call to call.

\* The plans handed to the mapper.
RegisteredPlans ==
    {Plan(task, ss, {}, <<"inputs">>) : task \in TaskPlanners, ss \in SUBSET Subjects \ {{}}}

RegisterInit ==
    /\ planners = Registry1
    /\ products = [s \in Subjects |-> {}]
    /\ request = [goals |-> <<>>, addressable_roots |-> <<>>]
    /\ pc = "register"
    /\ loop = [goal |-> 1, product_types |-> <<>>, subject |-> 1, types |-> <<>>,
               stage |-> "goal"]
    /\ stack = <<>>
    /\ promises = EmptyMap
    /\ plans_index = EmptyMap
    /\ root_promises = <<>>
    /\ finalized = {}
    /\ error = NULL
    /\ returned = {}
    /\ last = NoEvent("init")
    /\ ncalls = 0
    /\ emitted = {}
    /\ plan_calls = {}
    /\ solver = NULL

\* product_mapper.register_promises(product_type, plan, primary_subject, configuration):
\* the caller gets the primary promise or None, or InvalidRegistrationError.
RegisterPlan ==
    /\ pc = "register" /\ ncalls < MaxRegistrations
    /\ \E product_type \in {"T", "U"}, plan \in RegisteredPlans,
          primary_subject \in Subjects \cup {None}, configuration \in Configurations :
          LET reg == register_promises(promises, product_type, plan, primary_subject,
                                       configuration)
          IN  /\ promises' = reg.mapper
              /\ error' = IF reg.raises
                          THEN [kind |-> "InvalidRegistrationError",
                                product_type |-> product_type, subject |-> primary_subject,
                                planners |-> <<>>, partially_consumed |-> {}]
                          ELSE NULL
              /\ last' = Event("register_promises",
                               Promise(product_type, primary_subject, configuration),
                               FALSE, FALSE, 0, None, plan,
                               IF reg.raises THEN NULL ELSE reg.primary_promise)
    /\ ncalls' = ncalls + 1
    /\ UNCHANGED <<planners, products, request, pc, loop, stack, plans_index,
                   root_promises, finalized, returned, emitted, plan_calls, solver>>

RegisterNext == RegisterPlan

RegisterSpec == RegisterInit /\ [][RegisterNext]_vars

C24_ErrorsAreFatal ==
    /\ last.op \in {"raise", "partial"} <=> pc = "error"
    /\ error # NULL <=> pc = "error"
    /\ pc = "error" => (stack = <<>> /\ finalized = {})
    /\ last.op = "raise" =>
          /\ error.product_type = last.call.product_type
          /\ error.subject = last.call.subject
          /\ error.kind \in {"NoProducersError", "ConflictingProducersError",
                             "SchedulingError"}
    /\ last.op = "partial" => error.kind = "PartiallyConsumedInputsError"

\* A promise() call made by a running planner raised after plans had been
\* registered for finalization.
C24_Witness ==
    /\ pc = "error" /\ last.op = "raise"
    /\ last.call.configuration = "cN"
    /\ DOMAIN plans_index # {}

\* ------------------------------------------------------------------------
\* Plan.promises over the input tree of a plan.  A value of the tree is a
\* Promise, a string, a mapping or a sequence of values.  The items of a
\* mapping are its <<key, value>> entries in insertion order, the keys
\* distinct strings of one character.

PromiseValue(promise) == [kind |-> "Promise", promise |-> promise]

StringValue(chars) == [kind |-> "str", chars |-> chars]

MappingValue(items) == [kind |-> "Mapping", items |-> items]

SequenceValue(items) == [kind |-> "Iterable", items |-> items]

\* The values without values inside: two promises and a string of two
\* characters.
LeafValues ==
    {PromiseValue(Promise("T", "A", None)), PromiseValue(Promise("N", "B", "cN")),
     StringValue(<<"a", "b">>)}

RECURSIVE InputValues(_)

\* The values nested at most n deep: the leaves, the empty mapping, the
\* sequences of at most MaxItems leaves, and around every value nested at most
\* n - 1 deep a mapping with one key and, unless it is a leaf, the sequences
\* of at most MaxItems items that hold it among strings.
InputValues(n) ==
    IF n = 0 THEN LeafValues
    ELSE LET Flat == UNION {[1..len -> LeafValues] : len \in 0..MaxItems}
             Among(v) == {[h \in 1..len |-> IF h = i THEN v ELSE StringValue(<<"a", "b">>)] :
                             len \in 1..MaxItems, i \in 1..MaxItems}
             Around(v) == {MappingValue(<<<<"k", v>>>>)}
                              \cup IF v \in LeafValues THEN {}
                                   ELSE {SequenceValue(items) : items \in Among(v)}
         IN  LeafValues
             \cup {MappingValue(<<>>)}
             \cup {SequenceValue(items) : items \in Flat}
             \cup UNION {Around(v) : v \in InputValues(n - 1)}

\* A faulty test: a string is an iterable like any other.
IsIterableOrString(value) == value.kind \in {"Iterable", "str"}

\* Plan._is_mapping
IsMapping(value) == value.kind = "Mapping"

\* Plan._is_iterable: an iterable that is not a string.
IsIterable(value) == value.kind = "Iterable"

\* What iterating a value yields: the items of a sequence, the characters of
\* a string, each a string of one character.
IterationOf(value) ==
    IF value.kind = "str"
    THEN [i \in 1..Len(value.chars) |-> StringValue(<<value.chars[i]>>)]
    ELSE value.items

\* The recursion limit of the interpreter, above the depth of every tree.
WalkLimit == MaxTreeDepth + 2

RECURSIVE iter_promises(_, _)

\* iter_promises(item) of Plan.promises: the promises it yields, and whether
\* the recursion ran out of stack.
iter_promises(item, depth) ==
    IF depth > WalkLimit THEN [promises |-> {}, overflow |-> TRUE]
    ELSE IF item.kind = "Promise" THEN [promises |-> {item.promise}, overflow |-> FALSE]
    ELSE IF IsMapping(item)
    THEN LET below == {iter_promises(item.items[i][2], depth + 1) :
                          i \in 1..Len(item.items)}
         IN  [promises |-> UNION {r.promises : r \in below},
              overflow |-> \E r \in below : r.overflow]
    ELSE IF IsIterable(item)
    THEN LET items == IterationOf(item)
             below == {iter_promises(items[i], depth + 1) : i \in 1..Len(items)}
         IN  [promises |-> UNION {r.promises : r \in below},
              overflow |-> \E r \in below : r.overflow]
    ELSE [promises |-> {}, overflow |-> FALSE]

\* Plan.promises: for _, value in self._inputs.items(): promises.update(iter_promises(value))
PlanPromises(inputs) ==
    LET below == {iter_promises(inputs[name], 0) : name \in DOMAIN inputs}
    IN  [promises |-> UNION {r.promises : r \in below},
         overflow |-> \E r \in below : r.overflow]

\* A product, as products_by_promise supplies it.
ProductValue(name) == [kind |-> "product", name |-> name]

\* The mappings from the promises of the trees to products.
ProductsByPromise ==
    [{Promise("T", "A", None), Promise("N", "B", "cN")} -> {ProductValue("x"), ProductValue("y")}]

\* A faulty lookup: the product of one fixed promise, whatever the promise.
FirstProduct(products_by_promise, promise) ==
    products_by_promise[Promise("T", "A", None)]

\* products_by_promise[item]
ProductFor(products_by_promise, promise) == products_by_promise[promise]

RECURSIVE bind_products(_, _, _)

\* bind_products(item) of Plan.bind: a dict for a mapping, a list for an
\* iterable, the product for a promise, the item itself otherwise.  The
\* result is built anew; the item is not changed.
bind_products(item, products_by_promise, depth) ==
    IF depth > WalkLimit THEN [kind |-> "RuntimeError"]
    ELSE IF item.kind = "Promise" THEN ProductFor(products_by_promise, item.promise)
    ELSE IF IsMapping(item)
    THEN MappingValue([i \in 1..Len(item.items) |->
                          <<item.items[i][1],
                            bind_products(item.items[i][2], products_by_promise, depth + 1)>>])
    ELSE IF IsIterable(item)
    THEN LET items == IterationOf(item)
         IN  SequenceValue([i \in 1..Len(items) |->
                               bind_products(items[i], products_by_promise, depth + 1)])
    ELSE item

\* Plan.bind: the keyword arguments of the Binding.
PlanBind(inputs, products_by_promise) ==
    [key \in DOMAIN inputs |-> bind_products(inputs[key], products_by_promise, 0)]

\* A plan is constructed with one keyword input.
InputsInit ==
    /\ planners = Registry1
    /\ products = [s \in Subjects |-> {}]
    /\ request = [goals |-> <<>>, addressable_roots |-> <<>>]
    /\ pc = "inputs"
    /\ loop = [goal |-> 1, product_types |-> <<>>, subject |-> 1, types |-> <<>>,
               stage |-> "goal"]
    /\ stack = <<>>
    /\ promises = EmptyMap
    /\ plans_index = EmptyMap
    /\ root_promises = <<>>
    /\ finalized = {}
    /\ error = NULL
    /\ returned = {}
    /\ last = NoEvent("init")
    /\ ncalls = 0
    /\ emitted = {}
    /\ plan_calls = {}
    /\ \E value \in InputValues(MaxTreeDepth) :
          solver = [op |-> "Plan", inputs |-> [name \in {"input"} |-> value]]

\* plan.promises
ReadPromises ==
    /\ pc = "inputs" /\ solver.op = "Plan"
    /\ solver' = [op |-> "promises", inputs |-> solver.inputs,
                  result |-> PlanPromises(solver.inputs)]
    /\ UNCHANGED <<planners, products, request, pc, loop, stack, promises, plans_index,
                   root_promises, finalized, error, returned, last, ncalls, emitted, plan_calls>>

\* plan.bind(products_by_promise)
BindPlan ==
    /\ pc = "inputs" /\ solver.op = "Plan"
    /\ \E products_by_promise \in ProductsByPromise :
          solver' = [op |-> "bind", inputs |-> solver.inputs,
                     products_by_promise |-> products_by_promise,
                     result |-> [func_or_task_type |-> "p1",
                                 kwargs |-> PlanBind(solver.inputs, products_by_promise)]]
    /\ UNCHANGED <<planners, products, request, pc, loop, stack, promises, plans_index,
                   root_promises, finalized, error, returned, last, ncalls, emitted, plan_calls>>

InputsNext == ReadPromises \/ BindPlan

InputsSpec == InputsInit /\ [][InputsNext]_vars

\* The values inside a value: the values of a mapping, the items of a
\* sequence; a string and a promise have none.
ValuesInside(value) ==
    IF value.kind = "Mapping" THEN {value.items[i][2] : i \in 1..Len(value.items)}
    ELSE IF value.kind = "Iterable" THEN Range(value.items)
    ELSE {}

RECURSIVE ReachableValues(_, _)

\* The values reachable from a set of values, n levels down.
ReachableValues(values, n) ==
    IF n = 0 THEN values
    ELSE ReachableValues(values \cup UNION {ValuesInside(v) : v \in values}, n - 1)

\* The Promise leaves of the input tree.
PromiseLeaves(inputs) ==
    {v.promise : v \in {x \in ReachableValues({inputs[name] : name \in DOMAIN inputs},
                                               MaxTreeDepth + 1) : x.kind = "Promise"}}

\* C25: Plan.promises returns, without exhausting the stack, exactly the
\* promises at the leaves of the plan's input tree, through mappings and
\* sequences nested at any depth; a string contributes nothing and is not
\* iterated.
C25_PlanPromises ==
    (pc = "inputs" /\ solver.op = "promises") =>
        /\ ~solver.result.overflow
        /\ solver.result.promises = PromiseLeaves(solver.inputs)

\* The promises of a sequence of a string and a mapping that holds a promise.
C25_Witness ==
    /\ pc = "inputs" /\ solver.op = "promises"
    /\ solver.result.promises = {Promise("N", "B", "cN")}
    /\ solver.inputs["input"] =
          SequenceValue(<<StringValue(<<"a", "b">>),
                          MappingValue(<<<<"k", PromiseValue(Promise("N", "B", "cN"))>>>>)>>)

RECURSIVE BoundTo(_, _, _, _)

\* A value is the bound form of another: the same kind of node with the same
\* keys or the same number of items, bound item by item; the supplied product
\* for a promise; the same string for a string.
BoundTo(bound, value, products_by_promise, n) ==
    IF value.kind = "Promise" THEN bound = products_by_promise[value.promise]
    ELSE IF value.kind = "str" THEN bound = value
    ELSE IF n = 0 THEN FALSE
    ELSE IF value.kind = "Mapping"
    THEN /\ bound.kind = "Mapping"
         /\ Len(bound.items) = Len(value.items)
         /\ \A i \in 1..Len(value.items) :
               /\ bound.items[i][1] = value.items[i][1]
               /\ BoundTo(bound.items[i][2], value.items[i][2], products_by_promise, n - 1)
    ELSE /\ bound.kind = "Iterable"
         /\ Len(bound.items) = Len(value.items)
         /\ \A i \in 1..Len(value.items) :
               BoundTo(bound.items[i], value.items[i], products_by_promise, n - 1)

\* C26: the Binding that Plan.bind returns has the plan's input names, and
\* under each name a tree of the same shape and keys as the plan's, with the
\* supplied product in place of every promise and every other leaf as it
\* was; the inputs of the plan are what they were.
C26_PlanBind ==
    [][(pc = "inputs" /\ solver'.op = "bind") =>
          /\ solver'.inputs = solver.inputs
          /\ DOMAIN solver'.result.kwargs = DOMAIN solver.inputs
          /\ \A key \in DOMAIN solver.inputs :
                BoundTo(solver'.result.kwargs[key], solver.inputs[key],
                        solver'.products_by_promise, MaxTreeDepth + 1)]_vars

\* The binding of a sequence of a string and a mapping that holds a promise.
C26_Witness ==
    /\ pc = "inputs" /\ solver.op = "bind"
    /\ solver.products_by_promise[Promise("N", "B", "cN")] = ProductValue("y")
    /\ solver.products_by_promise[Promise("T", "A", None)] = ProductValue("x")
    /\ solver.inputs["input"] =
          SequenceValue(<<StringValue(<<"a", "b">>),
                          MappingValue(<<<<"k", PromiseValue(Promise("N", "B", "cN"))>>>>)>>)
    /\ solver.result.kwargs["input"] =
          SequenceValue(<<StringValue(<<"a", "b">>),
                          MappingValue(<<<<"k", ProductValue("y")>>>>)>>)


\* ---------------------------------------------------------------------------
\* Plan._key, Plan.__eq__ and Plan.__hash__.
\* ---------------------------------------------------------------------------

\* The sorted order of the mapping keys in use.
KeyOrder == <<"j", "k", "input">>

\* A mapping key as the string it is; the model does not split it into
\* characters.
KeyValue(k) == StringValue(<<k>>)

\* A tuple built by hashable.
TupleValue(items) == [tuple |-> items]

\* sorted(...) over the (key, value) pairs of a mapping: the keys are distinct,
\* so the pairs are ordered by key alone.
RECURSIVE SortedFrom(_, _)
SortedFrom(items, i) ==
    IF i > Len(KeyOrder) THEN <<>>
    ELSE SelectSeq(items, LAMBDA e : e[1] = KeyOrder[i]) \o SortedFrom(items, i + 1)

Sorted(items) == SortedFrom(items, 1)

\* hashable, the local function of Plan._key.
RECURSIVE hashable(_)
hashable(value) ==
    IF IsMapping(value)
    THEN LET pairs == Sorted(value.items)
         IN  TupleValue([i \in 1..Len(pairs) |->
                           TupleValue(<<KeyValue(pairs[i][1]), hashable(pairs[i][2])>>)])
    ELSE IF IsIterable(value)
    THEN TupleValue([i \in 1..Len(value.items) |-> hashable(value.items[i])])
    ELSE value

\* Plan.__init__: the subjects become a frozenset, the keyword arguments the
\* inputs mapping.
PlanObject(func_or_task_type, subjects, inputs) ==
    [func_or_task_type |-> func_or_task_type,
     subjects |-> Range(subjects),
     inputs |-> MappingValue(inputs)]

Plan_key(plan) ==
    <<plan.func_or_task_type, plan.subjects, hashable(plan.inputs)>>

PlanEq(a, b) == Plan_key(a) = Plan_key(b)

\* hash(): the hash of a tuple is computed from the hashes of its elements in
\* order, that of a frozenset from the hashes of its elements in any order.
HashModulus == 256

AtomHash ==
    [a |-> 97, b |-> 98, j |-> 106, k |-> 107, input |-> 105,
     p1 |-> 11, p2 |-> 12, A |-> 65, B |-> 66, T |-> 84, N |-> 78, None |-> 0, cN |-> 99]

RECURSIVE StringHash(_, _, _)
StringHash(chars, i, h) ==
    IF i > Len(chars) THEN h
    ELSE StringHash(chars, i + 1, (h * 31 + AtomHash[chars[i]]) % HashModulus)

RECURSIVE HashSeq(_, _, _)
RECURSIVE HashOf(_)
HashSeq(items, i, h) ==
    IF i > Len(items) THEN h
    ELSE HashSeq(items, i + 1, (h * 31 + HashOf(items[i])) % HashModulus)

HashOf(value) ==
    IF "tuple" \in DOMAIN value THEN HashSeq(value.tuple, 1, Len(value.tuple) + 1)
    ELSE IF value.kind = "str" THEN StringHash(value.chars, 1, 7)
    ELSE (AtomHash[value.promise.product_type] + AtomHash[value.promise.subject]
          + AtomHash[value.promise.configuration]) % HashModulus

RECURSIVE HashSet(_)
HashSet(subjects) ==
    IF subjects = {} THEN 0
    ELSE LET subject == CHOOSE x \in subjects : TRUE
         IN  (AtomHash[subject] + HashSet(subjects \ {subject})) % HashModulus

PlanHash(plan) ==
    LET key == Plan_key(plan)
    IN  (((AtomHash[key[1]] * 31 + HashSet(key[2])) % HashModulus) * 31
         + HashOf(key[3])) % HashModulus


\* The input values of the compared plans: leaves, mappings of at most two
\* entries in either insertion order, sequences of at most two leaves, and
\* sequences of at most two such values.
KeyLeaves == {PromiseValue(Promise("T", "A", None)), StringValue(<<"k">>)}

UpToTwo(S) == {<<>>} \cup {<<x>> : x \in S} \cup {<<x, y>> : x, y \in S}

SmallMappings ==
    {MappingValue(<<>>)}
        \cup {MappingValue(<<<<k, v>>>>) : k \in {"j", "k"}, v \in KeyLeaves}

TwoEntryMappings ==
    {MappingValue(<<<<keys[1], v1>>, <<keys[2], v2>>>>) :
        keys \in {<<"j", "k">>, <<"k", "j">>}, v1 \in KeyLeaves, v2 \in KeyLeaves}

FlatSequences == {SequenceValue(items) : items \in UpToTwo(KeyLeaves)}

KeyValues ==
    KeyLeaves \cup SmallMappings \cup TwoEntryMappings \cup FlatSequences
        \cup {SequenceValue(items) :
                items \in UpToTwo(KeyLeaves \cup SmallMappings \cup FlatSequences)}

\* The pairs of plans compared: every pair of the given input values under
\* one task and one subject set, and every pair of tasks and subject lists
\* over two mappings that differ in insertion order alone.
PlanPairsOver(values) ==
    {<<PlanObject("p1", <<"A", "B">>, <<<<"input", x>>>>),
       PlanObject("p1", <<"A", "B">>, <<<<"input", y>>>>)>> : x, y \in values}
    \cup
    {<<PlanObject(t1, s1, <<<<"input", x>>>>), PlanObject(t2, s2, <<<<"input", y>>>>)>> :
        t1 \in {"p1", "p2"}, t2 \in {"p1", "p2"},
        s1 \in {<<"A">>, <<"A", "B">>, <<"B", "A">>},
        s2 \in {<<"A">>, <<"A", "B">>, <<"B", "A">>},
        x \in {MappingValue(<<<<"j", StringValue(<<"k">>)>>,
                              <<"k", PromiseValue(Promise("T", "A", None))>>>>)},
        y \in {MappingValue(<<<<"j", StringValue(<<"k">>)>>,
                              <<"k", PromiseValue(Promise("T", "A", None))>>>>),
               MappingValue(<<<<"k", PromiseValue(Promise("T", "A", None))>>,
                              <<"j", StringValue(<<"k">>)>>>>)}}

EqualityInit ==
    /\ planners = Registry1
    /\ products = [s \in Subjects |-> {}]
    /\ request = [goals |-> <<>>, addressable_roots |-> <<>>]
    /\ pc = "equality"
    /\ loop = [goal |-> 1, product_types |-> <<>>, subject |-> 1, types |-> <<>>,
               stage |-> "goal"]
    /\ stack = <<>>
    /\ promises = EmptyMap
    /\ plans_index = EmptyMap
    /\ root_promises = <<>>
    /\ finalized = {}
    /\ error = NULL
    /\ returned = {}
    /\ last = NoEvent("init")
    /\ ncalls = 0
    /\ emitted = {}
    /\ plan_calls = {}
    /\ \E pair \in PlanPairsOver(KeyValues) :
          solver = [op |-> "Plan", a |-> pair[1], b |-> pair[2]]

\* a == b, hash(a) and hash(b) for the two plans.
ComparePlans ==
    /\ pc = "equality"
    /\ solver.op = "Plan"
    /\ solver' = [op |-> "__eq__", a |-> solver.a, b |-> solver.b,
                  result |-> PlanEq(solver.a, solver.b),
                  hash_a |-> PlanHash(solver.a), hash_b |-> PlanHash(solver.b)]
    /\ UNCHANGED <<planners, products, request, pc, loop, stack, promises, plans_index,
                   root_promises, finalized, error, returned, last, ncalls, emitted, plan_calls>>

EqualityNext == ComparePlans

EqualitySpec == EqualityInit /\ [][EqualityNext]_vars


\* Python equality of two input values: mappings are equal when they hold the
\* same entries in any insertion order, sequences when they hold equal items
\* in the same order; values of different kinds are never equal.
RECURSIVE SameValue(_, _)
SameValue(x, y) ==
    /\ x.kind = y.kind
    /\ IF x.kind = "Mapping"
       THEN /\ Len(x.items) = Len(y.items)
            /\ \A i \in 1..Len(x.items) : \E j \in 1..Len(y.items) :
                  /\ x.items[i][1] = y.items[j][1]
                  /\ SameValue(x.items[i][2], y.items[j][2])
       ELSE IF x.kind = "Iterable"
       THEN /\ Len(x.items) = Len(y.items)
            /\ \A i \in 1..Len(x.items) : SameValue(x.items[i], y.items[i])
       ELSE x = y

\* The sequence y holds the items of the sequence x in a different order.
ReorderedSequence(x, y) ==
    /\ x.kind = "Iterable"
    /\ y.kind = "Iterable"
    /\ Len(x.items) = Len(y.items)
    /\ \E f \in Perms(1..Len(x.items)) :
          \A i \in 1..Len(x.items) : SameValue(y.items[i], x.items[f[i]])
    /\ \E i \in 1..Len(x.items) : ~SameValue(x.items[i], y.items[i])

\* Claim C27: plans with the same task, the same subject set in any order and
\* the same inputs are equal with equal hashes whatever the insertion order of
\* their mapping entries, and plans whose sequence inputs differ in element
\* order are unequal.
C27_StructuralEquality ==
    (pc = "equality" /\ solver.op = "__eq__") =>
        LET a == solver.a
            b == solver.b
            x == a.inputs.items[1][2]
            y == b.inputs.items[1][2]
        IN  /\ (/\ a.func_or_task_type = b.func_or_task_type
                /\ a.subjects = b.subjects
                /\ SameValue(a.inputs, b.inputs))
                  => (solver.result /\ solver.hash_a = solver.hash_b)
            /\ (a.func_or_task_type # b.func_or_task_type \/ a.subjects # b.subjects)
                  => ~solver.result
            /\ ReorderedSequence(x, y) => ~solver.result

\* The part of C27 that holds: equal tasks, subject sets and inputs give equal
\* plans with equal hashes, and equal plans always have equal hashes.
C27_EqualPlans ==
    (pc = "equality" /\ solver.op = "__eq__") =>
        LET a == solver.a
            b == solver.b
        IN  /\ (/\ a.func_or_task_type = b.func_or_task_type
                /\ a.subjects = b.subjects
                /\ SameValue(a.inputs, b.inputs))
                  => solver.result
            /\ solver.result => solver.hash_a = solver.hash_b

\* Two plans given the subjects in opposite orders and a mapping in opposite
\* insertion orders are equal.
C27_Witness ==
    /\ pc = "equality"
    /\ solver.op = "__eq__"
    /\ solver.a.inputs # solver.b.inputs
    /\ SameValue(solver.a.inputs, solver.b.inputs)
    /\ solver.result
    /\ solver.hash_a = solver.hash_b


\* ---------------------------------------------------------------------------
\* FilesetRelPathWrapper (wrapped_globs.py): globs(*args, exclude=...).
\* A path is a sequence of characters.
\* ---------------------------------------------------------------------------

MaxGlobLength == 5

Slash == "/"

\* get_buildroot(): an absolute directory.
BuildRoot == <<"/", "b">>

StartsWith(path, prefix) ==
    /\ Len(path) >= Len(prefix)
    /\ SubSeq(path, 1, Len(prefix)) = prefix

\* os.path.join(a, b).
PathJoin(a, b) ==
    IF StartsWith(b, <<Slash>>) THEN b
    ELSE IF a = <<>> \/ a[Len(a)] = Slash THEN a \o b
    ELSE a \o <<Slash>> \o b

\* path.split('/').
RECURSIVE SplitPath(_)
SplitPath(path) ==
    IF \A i \in 1..Len(path) : path[i] # Slash THEN <<path>>
    ELSE LET i == CHOOSE j \in 1..Len(path) :
                    path[j] = Slash /\ \A h \in 1..(j - 1) : path[h] # Slash
         IN  <<SubSeq(path, 1, i - 1)>> \o SplitPath(SubSeq(path, i + 1, Len(path)))

\* '/'.join(comps).
RECURSIVE JoinComponents(_)
JoinComponents(comps) ==
    IF comps = <<>> THEN <<>>
    ELSE IF Len(comps) = 1 THEN comps[1]
    ELSE comps[1] \o <<Slash>> \o JoinComponents(Tail(comps))

\* The loop of os.path.normpath over the components of the path.
RECURSIVE NormalizedComponents(_, _, _)
NormalizedComponents(comps, new_comps, initial_slashes) ==
    IF comps = <<>> THEN new_comps
    ELSE LET comp == Head(comps)
             kept ==
                 IF comp \in {<<>>, <<".">>} THEN new_comps
                 ELSE IF \/ comp # <<".", ".">>
                         \/ (initial_slashes = 0 /\ new_comps = <<>>)
                         \/ (new_comps # <<>> /\ new_comps[Len(new_comps)] = <<".", ".">>)
                 THEN Append(new_comps, comp)
                 ELSE IF new_comps # <<>> THEN SubSeq(new_comps, 1, Len(new_comps) - 1)
                 ELSE new_comps
         IN  NormalizedComponents(Tail(comps), kept, initial_slashes)

InitialSlashes(path) ==
    IF ~StartsWith(path, <<Slash>>) THEN 0
    ELSE IF StartsWith(path, <<Slash, Slash>>) /\ ~StartsWith(path, <<Slash, Slash, Slash>>)
    THEN 2
    ELSE 1

\* os.path.normpath(path).
normpath(path) ==
    IF path = <<>> THEN <<".">>
    ELSE LET initial_slashes == InitialSlashes(path)
             joined == JoinComponents(NormalizedComponents(SplitPath(path), <<>>,
                                                           initial_slashes))
             result == [i \in 1..initial_slashes |-> Slash] \o joined
         IN  IF result = <<>> THEN <<".">> ELSE result

\* os.path.commonprefix([a, b]): the longest common prefix, character by
\* character.
commonprefix(a, b) ==
    LET agree == {n \in 0..Len(a) : n <= Len(b) /\ SubSeq(a, 1, n) = SubSeq(b, 1, n)}
        n == CHOOSE m \in agree : \A h \in agree : h <= m
    IN  SubSeq(a, 1, n)

\* FilesetRelPathWrapper._is_glob_dir_outside_root.
is_glob_dir_outside_root(glob, root) ==
    LET glob_path == normpath(PathJoin(root, glob))
    IN  commonprefix(root, glob_path) # root


\* The components of a path after normalization.
Components(path) == SelectSeq(SplitPath(normpath(path)), LAMBDA comp : comp # <<>>)

\* os.path.relpath(path, start) for two absolute paths.
relpath(path, start) ==
    LET start_list == Components(start)
        path_list == Components(path)
        same == {n \in 0..Len(start_list) :
                    n <= Len(path_list) /\ SubSeq(start_list, 1, n) = SubSeq(path_list, 1, n)}
        i == CHOOSE m \in same : \A h \in same : h <= m
        rel_list == [h \in 1..(Len(start_list) - i) |-> <<".", ".">>]
                        \o SubSeq(path_list, i + 1, Len(path_list))
    IN  IF rel_list = <<>> THEN <<".">> ELSE JoinComponents(rel_list)

\* FilesetWithSpec(result, spec).
FilesetWithSpec(result, spec) == [kind |-> "FilesetWithSpec", result |-> result, spec |-> spec]

\* The exclude keyword left out of the call: kwargs.pop('exclude', []).
NoExclude == SequenceValue(<<>>)

\* The files on disk.
Files ==
    {BuildRoot \o <<"/", "y", "/", "y">>, BuildRoot \o <<"/", "y", "/", "z">>,
     BuildRoot \o <<"/", "y", "z">>, BuildRoot \o <<"/", "z">>, <<"/", "z">>}

\* wrapped_fn(root=root, *args): the globs that name a file, as given.
wrapped_fn(root, args) ==
    {glob \in Range(args) : normpath(PathJoin(root, glob)) \in Files}

\* for i, exclude in enumerate(excludes): a string becomes the list holding it.
WrappedExcludes(excludes) ==
    [i \in 1..Len(excludes) |->
        IF excludes[i].kind = "str" THEN SequenceValue(<<excludes[i]>>) ELSE excludes[i]]

\* iter(exclude): the names of a list, the files of a FilesetWithSpec.
ExcludedNames(exclude) ==
    IF exclude.kind = "FilesetWithSpec" THEN exclude.result
    ELSE {exclude.items[i].chars : i \in 1..Len(exclude.items)}

\* FilesetRelPathWrapper.to_json.
to_json(args, root, excludes) ==
    LET globs == [i \in 1..Len(args) |-> PathJoin(root, args[i])]
        exclude ==
            [i \in 1..Len(excludes) |->
                IF excludes[i].kind = "FilesetWithSpec" THEN excludes[i].spec
                ELSE [globs |-> [h \in 1..Len(excludes[i].items) |->
                                    PathJoin(root, excludes[i].items[h].chars)]]]
    IN  IF excludes # <<>> THEN [globs |-> globs, exclude |-> exclude]
        ELSE [globs |-> globs]

\* FilesetRelPathWrapper.__call__: the error raised, or the FilesetWithSpec
\* returned; produced tells whether wrapped_fn was called.
GlobsResult(rel_path, args, exclude) ==
    LET root == PathJoin(BuildRoot, rel_path)
        excludes == WrappedExcludes(exclude.items)
        result == wrapped_fn(root, args)
                      \ UNION {ExcludedNames(excludes[i]) : i \in 1..Len(excludes)}
        rel_root == relpath(root, BuildRoot)
    IN  IF exclude.kind = "str"
        THEN [raised |-> "ValueError", about |-> "exclude", produced |-> FALSE]
        ELSE IF \E i \in 1..Len(args) : is_glob_dir_outside_root(args[i], root)
        THEN [raised |-> "ValueError", about |-> "glob", produced |-> FALSE]
        ELSE [raised |-> None, produced |-> TRUE,
              value |-> FilesetWithSpec(result, to_json(args, rel_root, excludes))]

\* The globs of at most MaxGlobLength characters.
GlobChars == {"/", ".", "y", "z"}

Globs == UNION {[1..n -> GlobChars] : n \in 0..MaxGlobLength}

\* The exclude arguments: a bare string, or a list of at most two items, each
\* a bare string, a list of names or a globs object.
ExcludeItems ==
    {StringValue(<<"y">>), SequenceValue(<<StringValue(<<"y">>)>>),
     SequenceValue(<<StringValue(<<"z">>)>>),
     FilesetWithSpec({<<"z">>}, [globs |-> <<<<"y", "/", "z">>>>])}

Excludes ==
    {StringValue(<<"y">>)} \cup {SequenceValue(items) : items \in UpToTwo(ExcludeItems)}

\* The calls made: any one glob without excludes, two globs at once, and the
\* two files of the directory under every exclude argument.
GlobsCalls ==
    {[op |-> "globs", rel_path |-> rel_path, args |-> <<glob>>, exclude |-> NoExclude] :
        rel_path \in {<<"y">>, <<>>}, glob \in Globs}
    \cup
    {[op |-> "globs", rel_path |-> <<"y">>, args |-> <<g1, g2>>, exclude |-> NoExclude] :
        g1 \in {<<"y">>, <<".", ".">>, <<"/", "z">>},
        g2 \in {<<"y">>, <<".", ".">>, <<"/", "z">>}}
    \cup
    {[op |-> "globs", rel_path |-> <<"y">>, args |-> <<<<"y">>, <<"z">>>>,
      exclude |-> exclude] : exclude \in Excludes}

GlobsInit ==
    /\ planners = Registry1
    /\ products = [s \in Subjects |-> {}]
    /\ request = [goals |-> <<>>, addressable_roots |-> <<>>]
    /\ pc = "globs"
    /\ loop = [goal |-> 1, product_types |-> <<>>, subject |-> 1, types |-> <<>>,
               stage |-> "goal"]
    /\ stack = <<>>
    /\ promises = EmptyMap
    /\ plans_index = EmptyMap
    /\ root_promises = <<>>
    /\ finalized = {}
    /\ error = NULL
    /\ returned = {}
    /\ last = NoEvent("init")
    /\ ncalls = 0
    /\ emitted = {}
    /\ plan_calls = {}
    /\ solver \in GlobsCalls

\* One call of globs(*args, exclude=...).
GlobsCall ==
    /\ pc = "globs"
    /\ solver.op = "globs"
    /\ solver' = [op |-> "__call__", call |-> solver,
                  result |-> GlobsResult(solver.rel_path, solver.args, solver.exclude)]
    /\ UNCHANGED <<planners, products, request, pc, loop, stack, promises, plans_index,
                   root_promises, finalized, error, returned, last, ncalls, emitted, plan_calls>>

GlobsNext == GlobsCall

GlobsSpec == GlobsInit /\ [][GlobsNext]_vars

\* The normalized path of the glob is the root directory or lies below it.
InsideRoot(glob, root) ==
    LET root_list == Components(root)
        glob_list == Components(PathJoin(root, glob))
    IN  /\ Len(glob_list) >= Len(root_list)
        /\ SubSeq(glob_list, 1, Len(root_list)) = root_list

\* Claim C28: a call with a glob whose normalized path lies outside the BUILD
\* file's root directory is rejected before any file set is produced, and a
\* call whose globs all lie inside the root is accepted.
C28_GlobsConfined ==
    (pc = "globs" /\ solver.op = "__call__" /\ solver.call.exclude = NoExclude) =>
        LET root == PathJoin(BuildRoot, solver.call.rel_path)
            args == solver.call.args
        IN  IF \E i \in 1..Len(args) : ~InsideRoot(args[i], root)
            THEN solver.result.raised = "ValueError" /\ ~solver.result.produced
            ELSE solver.result.raised = None

\* Claim C29: a call whose exclude is a bare string or a list holding a bare
\* string is rejected; every other exclude is accepted and its names are
\* subtracted from the result.
C29_ExcludeStrings ==
    (pc = "globs" /\ solver.op = "__call__" /\ solver.call.args = <<<<"y">>, <<"z">>>>) =>
        LET exclude == solver.call.exclude
        IN  IF \/ exclude.kind = "str"
               \/ \E i \in 1..Len(exclude.items) : exclude.items[i].kind = "str"
            THEN solver.result.raised = "ValueError"
            ELSE /\ solver.result.raised = None
                 /\ solver.result.value.result =
                        {<<"y">>, <<"z">>}
                            \ UNION {ExcludedNames(exclude.items[i]) :
                                        i \in 1..Len(exclude.items)}


\* ---------------------------------------------------------------------------
\* The recording of partial and full consumption by the solver.
\* ---------------------------------------------------------------------------

\* What the accumulators hold for the clause of a planner: a partially
\* satisfied clause has each producible requirement mapped to the planner and
\* every unproducible requirement, a fully satisfied one has its requirements
\* among the fully consumed.
Recorded(acc, P, planner, anded_clause) ==
    /\ (Range(anded_clause) \cap P # {} /\ ~Satisfied(P, anded_clause)) =>
          \A c \in Range(anded_clause) \cap P : \A u \in Range(anded_clause) \ P :
              <<c, planner, u>> \in acc.pcc
    /\ (anded_clause # <<>> /\ Satisfied(P, anded_clause)) =>
          Range(anded_clause) \subseteq acc.fc

\* The solver evaluated the planners of the output O of an acyclic registry.
EvaluatedOutput ==
    /\ pc = "solver" /\ solver # NULL
    /\ AcyclicRequirements(planners)
    /\ Expanded(planners, products["A"], solver.output_product_type)

\* C30 as stated: whenever the solver evaluates an output O, every clause of
\* every planner registered for O is recorded: partially satisfied clauses in
\* partially_consumed, fully satisfied ones in fully_consumed.
C30_EveryClauseRecorded ==
    EvaluatedOutput =>
        LET O == solver.output_product_type
            P == Producible(planners, products["A"])
        IN  \A planner \in PlannersOf(planners, O) :
            \A j \in 1..Len(planners[planner].product_types[O]) :
                Recorded(solver.acc, P, planner, planners[planner].product_types[O][j])

\* Claim C30: whenever the solver evaluates an output O, for every planner
\* registered for O, every clause of its formula up to and including the first
\* fully satisfied one is recorded: each producible requirement c of a partially
\* satisfied clause has partially_consumed[c][planner] containing all
\* unproducible requirements of the clause, and the requirements of the fully
\* satisfied clause are in fully_consumed.  Clauses after the first fully
\* satisfied one are not evaluated.
C30_EvaluatedClausesRecorded ==
    EvaluatedOutput =>
        LET O == solver.output_product_type
            P == Producible(planners, products["A"])
        IN  \A planner \in PlannersOf(planners, O) :
            \A j \in EvaluatedClauses(P, planners[planner].product_types[O]) :
                Recorded(solver.acc, P, planner, planners[planner].product_types[O][j])

\* p1 produces T from [[N, M], [N]] with only N native: the first clause is
\* partially satisfied and recorded, the second fully satisfied and consumed.
C30_Witness ==
    /\ EvaluatedOutput
    /\ solver.output_product_type = "T"
    /\ products["A"] = {"N"}
    /\ "p1" \in PlannersOf(planners, "T")
    /\ planners["p1"].product_types["T"] = <<<<"N", "M">>, <<"N">>>>
    /\ <<"N", "p1", "M">> \in solver.acc.pcc
    /\ "N" \in solver.acc.fc
    /\ solver.ok


\* ---------------------------------------------------------------------------
\* Memoization of planning.
\* ---------------------------------------------------------------------------

\* The step is a call of planner.plan() by the innermost promise() call.
PlanCallStep ==
    /\ pc = "planning" /\ stack # <<>>
    /\ ~Top.running
    /\ Len(stack') = Len(stack)
    /\ stack'[Len(stack)].running

\* Claim C31: when the requests of the planners do not come back to a promise
\* that is being planned (neither this call nor any earlier plan() call for
\* the promise was made under a call for the same promise), a planner's plan()
\* is invoked at most once for a promise in the session: a repeated request
\* returns on the fast path.
C31_PlannedOnce ==
    [][(/\ PlanCallStep
        /\ ~ReEntrant(stack)
        /\ \A c \in plan_calls : c.promise = FramePromise(Top) => ~c.reentrant)
          => \A c \in plan_calls :
                ~(c.planner = Head(Top.todo) /\ c.promise = FramePromise(Top))]_vars

\* While planning T for A, the planner p1 asks twice for T of the other
\* subject: the first request has p1 plan it, the second returns on the fast
\* path, and plan() has been invoked once for each of the two promises.
C31_Witness ==
    /\ pc = "planning"
    /\ Len(stack) = 1 /\ Top.running
    /\ FramePromise(Top) = Promise("T", "A", None)
    /\ last.op = "fast" /\ last.call = Promise("T", "B", None)
    /\ ncalls = 2
    /\ plan_calls = {[planner |-> "p1", promise |-> Promise("T", "A", None),
                      reentrant |-> FALSE],
                     [planner |-> "p1", promise |-> Promise("T", "B", None),
                      reentrant |-> FALSE]}


\* ---------------------------------------------------------------------------
\* The state an abandoned execution_graph call leaves behind.
\* ---------------------------------------------------------------------------

\* Claim C32: when execution_graph raises, the ProductMapper and the plan
\* index of the scheduler are as they were before the call: empty.
C32_NoPartialState ==
    pc = "error" => (promises = EmptyMap /\ plans_index = EmptyMap)


\* ---------------------------------------------------------------------------
\* What the finalization pass registers.
\* ---------------------------------------------------------------------------

\* Claim C33: an iteration of the finalization pass whose finalize_plans
\* returned the collection it was given (as it does for every planner that
\* does not aggregate, NoPlanner included) leaves the ProductMapper unchanged;
\* one whose finalize_plans returned another collection registers each returned
\* plan under the output type for all of its subjects with no primary-subject
\* check, changes no other promise, and in either case nothing is raised.
C33_FinalizationRegisters ==
    [][(last'.op = "finalize" /\ finalized' # finalized) =>
          LET item == CHOOSE x \in finalized' \ finalized : TRUE
              finalized_plans == last'.result
              keys == {Promise(item[2], s, None) :
                          s \in UNION {finalized_plans[i].subjects :
                                          i \in 1..Len(finalized_plans)}}
          IN  /\ pc' = "finalizing" /\ error' = NULL
              /\ plans_index' = plans_index
              /\ item[1] \notin AggregatingPlanners => last'.planned
              /\ last'.planned => promises' = promises
              /\ ~last'.planned =>
                    /\ DOMAIN promises' = DOMAIN promises \cup keys
                    /\ \A q \in DOMAIN promises \ keys : promises'[q] = promises[q]
                    /\ \A i \in 1..Len(finalized_plans) : \A s \in finalized_plans[i].subjects :
                          \/ promises'[Promise(item[2], s, None)] = finalized_plans[i]
                          \/ \E j \in (i + 1)..Len(finalized_plans) :
                                /\ s \in finalized_plans[j].subjects
                                /\ promises'[Promise(item[2], s, None)] = finalized_plans[j]]_vars

\* finalize_plans returned one plan that leaves out a subject the planner was
\* asked to plan for; it is registered for its own subjects and nothing is
\* raised.
C33_Witness ==
    /\ pc = "finalizing" /\ error = NULL
    /\ last.op = "finalize" /\ ~last.planned
    /\ Len(last.result) = 1
    /\ \E e \in emitted :
          /\ e.planner = last.planner /\ e.product_type = last.call.product_type
          /\ e.subject \notin last.result[1].subjects
    /\ \A s \in last.result[1].subjects :
          promised(promises, Promise(last.call.product_type, s, None)) = last.result[1]


\* ---------------------------------------------------------------------------
\* Promises the replacement plans do not cover.
\* ---------------------------------------------------------------------------

\* A promise that promise() returned, of a product type for which the mapper
\* holds replacement plans, none of which is for its subject.
Dangling(q) ==
    /\ q \in returned
    /\ \E replacement \in Replacements : replacement[1] = q.product_type
    /\ \A replacement \in Replacements :
          replacement[1] = q.product_type => q.subject \notin replacement[2].subjects

\* In the returned graph every dangling promise resolves to a plan that is no
\* replacement, and the walk yields that plan when the promise is reachable
\* from a root.
DanglingInGraph ==
    LET dangling == {x \in returned : Dangling(x)}
    IN  dangling # {} =>
            LET graph == Graph
                reachable == ReachablePromises
            IN  \A q \in dangling :
                    /\ promised(promises, q) # NULL
                    /\ promised(promises, q).data # <<"finalized">>
                    /\ q \in reachable =>
                          /\ ~graph.failed
                          /\ YieldsOf(graph.yielded, promised(promises, q)) # {}

\* Claim C34: an iteration of the finalization pass that replaces plans
\* neither remaps nor removes a returned promise of the product type whose
\* subject is in none of the returned plans: the promise keeps resolving to
\* the plan it resolved to before; and in the returned graph such a promise
\* resolves to a superseded plan, which the walk yields when the promise is
\* reachable from a root.
C34_DanglingPromises ==
    /\ [][(last'.op = "finalize" /\ finalized' # finalized /\ ~last'.planned) =>
             LET item == CHOOSE x \in finalized' \ finalized : TRUE
                 covered == UNION {last'.result[i].subjects : i \in 1..Len(last'.result)}
             IN  \A q \in returned :
                     (q.product_type = item[2] /\ q.subject \notin covered) =>
                         /\ q \in DOMAIN promises'
                         /\ promises'[q] = promised(promises, q)]_vars
    /\ [](pc = "done" => DanglingInGraph)

\* The graph is returned after the plans for A and B were replaced by one plan
\* for B alone: the root promise for A still resolves to its first plan, and
\* the walk yields it.
C34_Witness ==
    /\ pc = "done"
    /\ \E q \in Range(root_promises) :
          /\ Dangling(q)
          /\ promised(promises, q).data = <<"inputs">>
          /\ YieldsOf(Graph.yielded, promised(promises, q)) # {}
          /\ \E replacement \in Replacements :
                /\ replacement[1] = q.product_type
                /\ YieldsOf(Graph.yielded, replacement[2]) # {}


\* ---------------------------------------------------------------------------
\* What a rejected registration leaves in the mapper.
\* ---------------------------------------------------------------------------

\* Claim C35: when register_promises raises InvalidRegistrationError the
\* promise -> plan map is as it was before the call, and no promise resolves
\* to the rejected plan unless it did before.
C35_RejectedChangesNothing ==
    [][ErrorKind(error') = "InvalidRegistrationError" =>
          /\ promises' = promises
          /\ \A q \in DOMAIN promises' :
                promises'[q] = last'.plan => promised(promises, q) = last'.plan]_vars


\* ---------------------------------------------------------------------------
\* The plan of a returned promise while planning goes on.
\* ---------------------------------------------------------------------------

\* Claim C36: once promise() has returned a promise q, no later step of the
\* planning phase made by a promise() call for another product type, subject
\* or configuration than q's changes the plan q resolves to.
C36_StableWhilePlanning ==
    [][pc = "planning" /\ stack # <<>> =>
          \A q \in returned \ {FramePromise(stack[Len(stack)])} :
              promised(promises', q) = promised(promises, q)]_vars


\* ---------------------------------------------------------------------------
\* register_promises with a primary subject given bare or as a Subject.
\* ---------------------------------------------------------------------------

\* An object that is not a Subject, as an argument next to Subject objects.
Bare(item) == [bare |-> item]

\* isinstance(item, Subject)
IsSubject(item) == "primary" \in DOMAIN item

\* Subject.as_subject: the item itself if it is a Subject, else
\* Subject(primary=item).
as_subject(item) == IF IsSubject(item) THEN item ELSE Subject(item.bare, None)

\* x == y for objects of which either may be a Subject: Subject.__eq__
\* answers False for an object that is not a Subject.
Equals(x, y) ==
    IF IsSubject(x) THEN IsSubject(y) /\ SubjectEq(x, y)
    ELSE IF IsSubject(y) THEN FALSE
    ELSE x.bare = y.bare

\* primary_subject == subject.primary
PrimaryMatches(primary_subject, subject) ==
    Equals(primary_subject, Bare(subject.primary))

\* ProductMapper.register_promises with a primary subject: the entries after
\* the stores, the promise of the subject that matched the primary subject,
\* and whether InvalidRegistrationError is raised (a Subject and a bare object
\* are both true values).
RegisterPrimary(entries, product_type, plan, primary_subject, configuration) ==
    LET matching == {s \in plan.subjects : PrimaryMatches(primary_subject, s)}
        primary_promise ==
            IF matching = {} THEN NULL
            ELSE PromiseObject(product_type, CHOOSE s \in matching : TRUE, configuration)
    IN  [entries |-> StoreAll(entries, product_type, plan, configuration, plan.subjects),
         primary_promise |-> primary_promise,
         raises |-> primary_promise = NULL]

\* The primary subjects given: bare objects and Subject wrappers.
PrimaryArguments == {Bare(s) : s \in Subjects} \cup SubjectObjects

PrimaryInit ==
    /\ planners = Registry1
    /\ products = [s \in Subjects |-> {}]
    /\ request = [goals |-> <<>>, addressable_roots |-> <<>>]
    /\ pc = "primary"
    /\ loop = [goal |-> 1, product_types |-> <<>>, subject |-> 1, types |-> <<>>,
               stage |-> "goal"]
    /\ stack = <<>>
    /\ promises = EmptyMap
    /\ plans_index = EmptyMap
    /\ root_promises = <<>>
    /\ finalized = {}
    /\ error = NULL
    /\ returned = {}
    /\ last = NoEvent("init")
    /\ ncalls = 0
    /\ emitted = {}
    /\ plan_calls = {}
    /\ solver = [op |-> "ProductMapper", entries |-> {}, registrations |-> 0]

\* ProductMapper.register_promises(product_type, plan, primary_subject=...,
\* configuration=configuration)
RegisterWithPrimary ==
    /\ pc = "primary" /\ solver.registrations < MaxRegistrations
    /\ \E product_type \in {"T", "U"}, plan \in MapperPlans,
          primary_subject \in PrimaryArguments, configuration \in Configurations :
          LET reg == RegisterPrimary(solver.entries, product_type, plan, primary_subject,
                                     configuration)
          IN  solver' = [op |-> "register_promises",
                         entries |-> reg.entries,
                         registrations |-> solver.registrations + 1,
                         product_type |-> product_type, plan |-> plan,
                         primary_subject |-> primary_subject,
                         configuration |-> configuration,
                         primary_promise |-> reg.primary_promise,
                         raises |-> reg.raises]
    /\ UNCHANGED <<planners, products, request, pc, loop, stack, promises, plans_index,
                   root_promises, finalized, error, returned, last, ncalls, emitted, plan_calls>>

PrimaryNext == RegisterWithPrimary

PrimarySpec == PrimaryInit /\ [][PrimaryNext]_vars

\* The plan covers the primary of the primary subject given.
CoversPrimary(plan, primary_subject) ==
    \E s \in plan.subjects : s.primary = as_subject(primary_subject).primary

\* Claim C37: register_promises called with a primary subject whose primary
\* the plan covers, given bare or as a Subject wrapper, does not raise and
\* returns the promise for (product type, that primary, configuration), the
\* same in both cases.
C37_WrappedAsBare ==
    (pc = "primary" /\ solver.op = "register_promises"
        /\ CoversPrimary(solver.plan, solver.primary_subject)) =>
        /\ ~solver.raises
        /\ solver.primary_promise # NULL
        /\ PromiseEq(solver.primary_promise,
                     PromiseObject(solver.product_type,
                                   as_subject(solver.primary_subject),
                                   solver.configuration))


\* ---------------------------------------------------------------------------
\* Equal plans and their input trees.
\* ---------------------------------------------------------------------------

\* Claim C38: two plans with the same task and subjects are equal only if
\* their input trees have the same node kinds and values; a mapping {k: v}
\* and the sequence of pairs [(k, v)] under the same input name do not give
\* equal plans.
C38_InjectiveOnInputs ==
    (pc = "equality" /\ solver.op = "__eq__"
        /\ solver.a.func_or_task_type = solver.b.func_or_task_type
        /\ solver.a.subjects = solver.b.subjects
        /\ solver.result) =>
        SameValue(solver.a.inputs, solver.b.inputs)

====
